---- MODULE Spec2Model ----
(***************************************************************************)
(* The order webhook handler (api/shopify-webhook.js) and the shipment     *)
(* webhook handler (api/printful-webhook.js) of shopify-printful-webhook,  *)
(* as one state machine.  A JavaScript string is a sequence of one-        *)
(* character strings wherever the code looks inside it (SKUs, variant      *)
(* keys); an HMAC is a symbolic, collision-free value.                     *)
(***************************************************************************)
EXTENDS Integers, Sequences, FiniteSets, TLC

\* Line items per inbound order.
MaxItems == 2
\* Webhook deliveries handled in one behaviour.
MaxDeliveries == 2

\* JavaScript's undefined / null for a string-valued slot.
Undefined == "<undefined>"

\* JavaScript truthiness of a string-or-undefined value.
Truthy(s) == s # Undefined /\ s # ""

(***************************************************************************)
(* Strings as character sequences                                          *)
(***************************************************************************)
LowerCase == <<"a","b","c","d","e","f","g","h","i","j","k","l","m",
               "n","o","p","q","r","s","t","u","v","w","x","y","z">>
UpperCase == <<"A","B","C","D","E","F","G","H","I","J","K","L","M",
               "N","O","P","Q","R","S","T","U","V","W","X","Y","Z">>
Digits == {"0","1","2","3","4","5","6","7","8","9"}

\* String.prototype.toUpperCase, one character.
UpperChar(c) ==
  IF \E i \in 1..Len(LowerCase) : LowerCase[i] = c
  THEN UpperCase[CHOOSE i \in 1..Len(LowerCase) : LowerCase[i] = c]
  ELSE c

toUpperCase(s) == [i \in 1..Len(s) |-> UpperChar(s[i])]

\* s.replace(/[^A-Z0-9]/g, "")
RECURSIVE stripNonAlnum(_)
stripNonAlnum(s) ==
  IF s = <<>> THEN <<>>
  ELSE IF Head(s) \in Digits \/ (\E i \in 1..Len(UpperCase) : UpperCase[i] = Head(s))
       THEN <<Head(s)>> \o stripNonAlnum(Tail(s))
       ELSE stripNonAlnum(Tail(s))

\* A replace without the g flag: only the first character outside [A-Z0-9]
\* is dropped.
normalizeFirstOnly(s) ==
  LET u == toUpperCase(s)
      bad == {i \in 1..Len(u) : stripNonAlnum(<<u[i]>>) = <<>>}
  IN  IF bad = {} THEN u
      ELSE LET k == CHOOSE i \in bad : \A j \in bad : i <= j
           IN  SubSeq(u, 1, k - 1) \o SubSeq(u, k + 1, Len(u))

\* const normalize = (s) => String(s).toUpperCase().replace(/[^A-Z0-9]/g, "")
normalize(s) == stripNonAlnum(toUpperCase(s))

RECURSIVE trimStart(_)
trimStart(s) == IF s # <<>> /\ Head(s) = " " THEN trimStart(Tail(s)) ELSE s

RECURSIVE trimEnd(_)
trimEnd(s) ==
  IF s # <<>> /\ s[Len(s)] = " " THEN trimEnd(SubSeq(s, 1, Len(s) - 1)) ELSE s

\* String.prototype.trim
trim(s) == trimEnd(trimStart(s))

\* s.split("_"): always at least one part.
RECURSIVE split(_)
split(s) ==
  IF \A i \in 1..Len(s) : s[i] # "_" THEN <<s>>
  ELSE LET k == CHOOSE i \in 1..Len(s) :
                  s[i] = "_" /\ \A j \in 1..(i - 1) : s[j] # "_"
       IN  <<SubSeq(s, 1, k - 1)>> \o split(SubSeq(s, k + 1, Len(s)))

\* parts.join("_")
RECURSIVE join(_)
join(parts) ==
  IF parts = <<>> THEN <<>>
  ELSE IF Len(parts) = 1 THEN parts[1]
  ELSE parts[1] \o <<"_">> \o join(Tail(parts))

(***************************************************************************)
(* Structured SKU decoder and variant catalog                              *)
(***************************************************************************)
\* The result of a failed decode (return null).
NoSku == [ok |-> FALSE, templateRef |-> <<>>, variantKey |-> <<>>]

\* A decoder that takes SKUs of exactly four segments only.
parseStructuredSkuFour(rawSku) ==
  LET sku == trim(rawSku)
      parts == split(sku)
  IN  IF Len(parts) # 4 \/ trim(parts[1]) = <<>> THEN NoSku
      ELSE [ok |-> TRUE,
            templateRef |-> trim(parts[1]),
            variantKey |-> join(<<normalize(parts[2]), normalize(parts[3]),
                                  normalize(parts[4])>>)]

parseStructuredSku(rawSku) ==
  LET sku == trim(rawSku)
      parts == split(sku)
  IN  IF Len(parts) < 4 THEN NoSku
      ELSE LET templateRef == trim(parts[1])
               productCode == parts[2]
               size == parts[Len(parts)]
               color == join(SubSeq(parts, 3, Len(parts) - 1))
           IN  IF templateRef = <<>> THEN NoSku
               ELSE [ok |-> TRUE,
                     templateRef |-> templateRef,
                     variantKey |->
                       join(<<normalize(productCode), normalize(color), normalize(size)>>)]

\* export const productColorSizeToVariant = { ... }
productColorSizeToVariant == {
     <<<<"B","C","3","0","0","1","_","W","H","T","_","X","S">>, 24351>>,
     <<<<"B","C","3","0","0","1","_","W","H","T","_","S">>, 24352>>,
     <<<<"B","C","3","0","0","1","_","W","H","T","_","M">>, 24353>>,
     <<<<"B","C","3","0","0","1","_","W","H","T","_","L">>, 24354>>,
     <<<<"B","C","3","0","0","1","_","W","H","T","_","X","L">>, 24355>>,
     <<<<"B","C","3","0","0","1","_","W","H","T","_","2","X","L">>, 24356>>,
     <<<<"B","C","3","0","0","1","_","W","H","T","_","3","X","L">>, 24357>>,
     <<<<"G","1","8","5","0","0","_","B","L","K","_","S">>, 5530>>,
     <<<<"G","1","8","5","0","0","_","B","L","K","_","M">>, 5531>>,
     <<<<"G","1","8","5","0","0","_","B","L","K","_","L">>, 5532>>,
     <<<<"G","1","8","5","0","0","_","B","L","K","_","X","L">>, 5533>>,
     <<<<"G","1","8","5","0","0","_","B","L","K","_","2","X","L">>, 5534>>,
     <<<<"G","1","8","5","0","0","_","B","L","K","_","3","X","L">>, 5535>>,
     <<<<"G","1","8","5","0","0","_","B","L","K","_","4","X","L">>, 5536>>
  }

\* A lookup that falls back on a default variant for a key the catalog lacks.
variantLookupDefault(variantKey) ==
  IF \E e \in productColorSizeToVariant : e[1] = variantKey
  THEN (CHOOSE e \in productColorSizeToVariant : e[1] = variantKey)[2]
  ELSE 24353 + 0 * Len(variantKey)

\* A catalog that holds no key.
variantLookupNone(variantKey) == 0 * Len(variantKey)

\* productColorSizeToVariant[variantKey]; 0 stands for undefined.
variantLookup(variantKey) ==
  IF \E e \in productColorSizeToVariant : e[1] = variantKey
  THEN (CHOOSE e \in productColorSizeToVariant : e[1] = variantKey)[2]
  ELSE 0


(***************************************************************************)
(* Process configuration, cryptography, inbound requests                   *)
(***************************************************************************)
\* The values of process.env the handlers read; Undefined is an unset variable.
Envs ==
  {[SHOPIFY_WEBHOOK_SECRET |-> "shh", DEBUG_TOKEN |-> Undefined,
    PRINTFUL_WEBHOOK_SECRET |-> "pfs"],
   [SHOPIFY_WEBHOOK_SECRET |-> "alt", DEBUG_TOKEN |-> "",
    PRINTFUL_WEBHOOK_SECRET |-> ""],
   [SHOPIFY_WEBHOOK_SECRET |-> "alt", DEBUG_TOKEN |-> "tok",
    PRINTFUL_WEBHOOK_SECRET |-> "pfalt"],
   [SHOPIFY_WEBHOOK_SECRET |-> Undefined, DEBUG_TOKEN |-> "tok",
    PRINTFUL_WEBHOOK_SECRET |-> Undefined],
   [SHOPIFY_WEBHOOK_SECRET |-> Undefined, DEBUG_TOKEN |-> Undefined,
    PRINTFUL_WEBHOOK_SECRET |-> "pfalt"]}

\* crypto.createHmac(alg, key).update(raw, "utf8").digest(enc): a symbolic value,
\* equal for equal algorithm, encoding, key and message only.
createHmac(alg, enc, key, raw) ==
  [kind |-> "digest", alg |-> alg, enc |-> enc, key |-> key, msg |-> raw]

\* A line item of an order: sku and title are character sequences, quantity -1
\* is an absent quantity, properties are name/value pairs.
NoLineItem ==
  [sku |-> <<>>, title |-> <<>>, product_id |-> 0, quantity |-> -1, properties |-> <<>>]

LiPlain ==
  [sku |-> <<"7","1","_","B","C","3","0","0","1","_","W","H","T","_","M">>,
   title |-> <<"T","e","e">>, product_id |-> 11, quantity |-> 2, properties |-> <<>>]

LiUnmapped ==
  [sku |-> <<"9","9","_","U","N","K","N","O","W","N","_","R","E","D","_","L">>,
   title |-> <<"C","a","p">>, product_id |-> 12, quantity |-> 1, properties |-> <<>>]

LiNoSku ==
  [sku |-> <<>>, title |-> <<"M","u","g">>, product_id |-> 13, quantity |-> 1,
   properties |-> <<>>]

LiNumbered ==
  [sku |-> <<" ","7","1","_","b","c","-","3","0","0","1","_","w","h","t","_","m"," ">>,
   title |-> <<"T","e","e">>, product_id |-> 11, quantity |-> -1,
   properties |-> << [name |-> <<"J","e","r","s","e","y"," ","N","u","m","b","e","r">>,
                      value |-> <<"7">>] >>]

LineItemPool == {LiPlain, LiUnmapped, LiNoSku, LiNumbered}

\* A line item whose SKU spells the colour out.
LiWhite ==
  [sku |-> <<"7","1","_","B","C","3","0","0","1","_","W","H","I","T","E","_","M">>,
   title |-> <<"T","e","e">>, product_id |-> 11, quantity |-> 1, properties |-> <<>>]

RECURSIVE SeqsUpTo(_, _)
SeqsUpTo(S, n) ==
  IF n = 0 THEN {<<>>}
  ELSE LET shorter == SeqsUpTo(S, n - 1)
       IN  shorter \cup {Append(q, x) : q \in {t \in shorter : Len(t) = n - 1}, x \in S}

\* The parsed JSON of an order event; order_number 0 is an absent order number.
NoOrder == [id |-> 0, order_number |-> 0, line_items |-> <<>>]
Orders ==
  [id : {4021}, order_number : {1001}, line_items : SeqsUpTo(LineItemPool, MaxItems)]
  \cup [id : {4021, 4022}, order_number : {0, 1001},
        line_items : SeqsUpTo({LiPlain, LiUnmapped}, 1)]
  \cup [id : {4021}, order_number : {1001}, line_items : {<<LiWhite, LiUnmapped>>}]

\* A raw request body: what JSON.parse makes of it (json FALSE: a syntax error)
\* and a byte-level variant of the same JSON text (pad).
OrderBody(o) == [json |-> TRUE, order |-> o, pad |-> 0]
MalformedBody == [json |-> FALSE, order |-> NoOrder, pad |-> 0]
SmallOrder == [id |-> 4021, order_number |-> 1001, line_items |-> <<LiPlain>>]
\* SmallOrder's JSON with one byte changed outside any value.
PaddedBody == [json |-> TRUE, order |-> SmallOrder, pad |-> 1]

\* A header value: absent, the empty string, or a digest string.
NoHeader == [kind |-> "absent", alg |-> "", enc |-> "", key |-> "", msg |-> MalformedBody]
EmptyHeader == [kind |-> "empty", alg |-> "", enc |-> "", key |-> "", msg |-> MalformedBody]

AuthBodies == {MalformedBody, OrderBody(SmallOrder), PaddedBody}

\* Requests that exercise method, bypass token and signature.
OrderAuthRequests ==
  [method : {"GET", "POST"},
   token : {Undefined, "", "tok", "bad"},
   hmac : {NoHeader, EmptyHeader}
          \cup {createHmac("sha256", "base64", k, b) : k \in {"shh", "alt", "guess"}, b \in AuthBodies}
          \cup {createHmac("sha256", "hex", k, b) : k \in {"shh", "alt"}, b \in AuthBodies},
   raw : AuthBodies,
   trace : {Undefined}]
  \cup
  [method : {"POST"},
   token : {Undefined, "tok"},
   hmac : {createHmac("sha256", "base64", k, OrderBody(SmallOrder)) : k \in {"shh", "alt"}},
   raw : {OrderBody(SmallOrder)},
   trace : {"1"}]

\* Correctly signed deliveries of every order.
OrderSignedRequests ==
  {[method |-> "POST", token |-> Undefined,
    hmac |-> createHmac("sha256", "base64", "shh", OrderBody(o)),
    raw |-> OrderBody(o), trace |-> Undefined] : o \in Orders}

OrderRequests == OrderAuthRequests \cup OrderSignedRequests

NoRequest ==
  [method |-> "", token |-> Undefined, hmac |-> NoHeader, raw |-> MalformedBody,
   trace |-> Undefined]


(***************************************************************************)
(* Personalization number of a line item                                   *)
(***************************************************************************)
\* String.prototype.toLowerCase, one character.
LowerChar(c) ==
  IF \E i \in 1..Len(UpperCase) : UpperCase[i] = c
  THEN LowerCase[CHOOSE i \in 1..Len(UpperCase) : UpperCase[i] = c]
  ELSE c

toLowerCase(s) == [i \in 1..Len(s) |-> LowerChar(s[i])]

\* s.includes(w)
includes(s, w) ==
  \E i \in 1..(Len(s) - Len(w) + 1) : SubSeq(s, i, i + Len(w) - 1) = w

\* /^\d+$/.test(s)
isDigits(s) == s # <<>> /\ \A i \in 1..Len(s) : s[i] \in Digits

\* const isNoneLikeValue = (v) => ...
isNoneLikeValue(v) ==
  toLowerCase(trim(v)) \in {<<"n","o","n","e">>, <<"n","o">>, <<"n","/","a">>, <<"n","a">>}

\* const isNumberFieldName = (name) => /number|jersey|shirt|custom/i.test(name)
isNumberFieldName(name) ==
  \E w \in {<<"n","u","m","b","e","r">>, <<"j","e","r","s","e","y">>,
            <<"s","h","i","r","t">>, <<"c","u","s","t","o","m">>} :
    includes(toLowerCase(name), w)

\* The first loop of extractCustomNumberFromLineItem over the properties from
\* position i; <<"?">> stands for "fell through the loop".
RECURSIVE targetFieldScan(_, _, _)
targetFieldScan(props, configuredKeys, i) ==
  IF i > Len(props) THEN <<"?">>
  ELSE LET name == trim(props[i].name)
           value == trim(props[i].value)
           isTargetField ==
             IF Len(configuredKeys) > 0
             THEN \E k \in 1..Len(configuredKeys) : configuredKeys[k] = toLowerCase(name)
             ELSE isNumberFieldName(name)
       IN  IF name = <<>> \/ value = <<>> THEN targetFieldScan(props, configuredKeys, i + 1)
           ELSE IF ~isTargetField THEN targetFieldScan(props, configuredKeys, i + 1)
           ELSE IF isNoneLikeValue(value) THEN <<>>
           ELSE IF isDigits(value) THEN value
           ELSE targetFieldScan(props, configuredKeys, i + 1)

\* The second loop: the first all-digit value of any property.
RECURSIVE anyDigitScan(_, _)
anyDigitScan(props, i) ==
  IF i > Len(props) THEN <<>>
  ELSE IF isDigits(trim(props[i].value)) THEN trim(props[i].value)
  ELSE anyDigitScan(props, i + 1)

\* process.env.CUSTOM_NUMBER_FIELD_KEYS is unset in every configuration modelled.
configuredNumberKeys == <<>>

\* The two loops of extractCustomNumberFromLineItem over the properties, under
\* the configured keys; the number as a character sequence, <<>> is null.
extractCustomNumber(props, configuredKeys) ==
  LET first == targetFieldScan(props, configuredKeys, 1)
  IN  IF first # <<"?">> THEN first
      ELSE IF Len(configuredKeys) > 0 THEN <<>>
      ELSE anyDigitScan(props, 1)

\* The number as a character sequence; <<>> is null.
extractCustomNumberFromLineItem(li) == extractCustomNumber(li.properties, configuredNumberKeys)

(***************************************************************************)
(* Artwork URLs and outbound calls                                         *)
(***************************************************************************)
\* `${base}/${handle}.png`
artUrlFromHandle(handle) == [kind |-> "art", ref |-> handle, part |-> <<>>]
\* `${base}/${templateRef}_${placement}.png`
placementArtUrl(templateRef, placement) ==
  [kind |-> "placement", ref |-> templateRef, part |-> placement]
\* `${base}/${templateRef}_${customNumber}.png`
numberArtUrl(templateRef, customNumber) ==
  [kind |-> "number", ref |-> templateRef, part |-> customNumber]
\* A composite that is the base image under its own URL.
compositeUrlBase(handle, templateRef, customNumber) == artUrlFromHandle(handle)

\* The public URL of the uploaded composite of a base and a number image.
compositeUrl(handle, templateRef, customNumber) ==
  [kind |-> "composite", ref |-> handle \o <<"_","_">> \o templateRef, part |-> customNumber]

\* The handle the order source holds for a product.
productHandle(product_id) ==
  CASE product_id = 11 -> <<"t","e","e">>
    [] product_id = 12 -> <<"c","a","p">>
    [] OTHER -> <<"m","u","g">>

\* An outbound HTTP call as the handler issued it, with the outcome it saw.
Call(op, target, ok) == [op |-> op, target |-> target, ok |-> ok]

\* const placements = ["front", "back", "sleeve_left", "sleeve_right"]
placements ==
  << <<"f","r","o","n","t">>, <<"b","a","c","k">>,
     <<"s","l","e","e","v","e","_","l","e","f","t">>,
     <<"s","l","e","e","v","e","_","r","i","g","h","t">> >>

\* What the outside world answers to the calls made for one line item.
AllAbsent == <<"absent", "absent", "absent", "absent">>
PlacementOutcomes ==
  {AllAbsent, <<"ok", "absent", "upload_fail", "ok">>, <<"absent", "ok", "throw", "ok">>}

\* Each failure on its own, and every placement outcome where nothing else fails.
LineOutcomes ==
  {o \in [handle : {"ok", "fail"},
          numberHead : {"absent", "throw", "ok"},
          composite : {"ok", "fetch_fail", "overlay_fail", "upload_fail", "no_url"},
          mainUpload : {"ok", "fail"},
          placements : PlacementOutcomes] :
     /\ o.handle = "fail" =>
          o.numberHead = "absent" /\ o.mainUpload = "ok" /\ o.placements = AllAbsent
     /\ o.numberHead # "ok" => o.composite = "ok"
     /\ (o.numberHead # "absent" \/ o.mainUpload = "fail") => o.placements = AllAbsent
     /\ (o.numberHead = "throw" \/ o.composite # "ok") => o.mainUpload = "ok"}

(***************************************************************************)
(* One iteration of the order handler's line-item loop                     *)
(***************************************************************************)
NoItem == [variant_id |-> 0, quantity |-> 0, files |-> <<>>]

\* A missing entry that is always the title.
missingTitle(li) == li.title

\* li?.sku || li.title
missingEntry(li) == IF li.sku # <<>> THEN li.sku ELSE li.title

\* The placement loop from placement i on: an existence probe, then an upload
\* whose failure is swallowed; a probe that throws leaves the loop.
RECURSIVE placementScan(_, _, _, _, _)
placementScan(templateRef, outcomes, i, files, issued) ==
  IF i > Len(placements) THEN [threw |-> FALSE, files |-> files, calls |-> issued]
  ELSE LET placementUrl == placementArtUrl(templateRef, placements[i])
       IN  CASE outcomes[i] = "throw" ->
                  [threw |-> TRUE, files |-> files,
                   calls |-> Append(issued, Call("HEAD", placementUrl, "throw"))]
             [] outcomes[i] = "absent" ->
                  placementScan(templateRef, outcomes, i + 1, files,
                                Append(issued, Call("HEAD", placementUrl, "fail")))
             [] outcomes[i] = "ok" ->
                  placementScan(templateRef, outcomes, i + 1,
                                Append(files, [type |-> placements[i], id |-> placementUrl]),
                                issued \o <<Call("HEAD", placementUrl, "ok"),
                                            Call("files.create", placementUrl, "ok")>>)
             [] OTHER ->
                  placementScan(templateRef, outcomes, i + 1, files,
                                issued \o <<Call("HEAD", placementUrl, "ok"),
                                            Call("files.create", placementUrl, "fail")>>)

\* The try block that resolves the artwork of a line item whose variant and
\* product handle are known.
resolveArtwork(li, templateRef, vId, handle, o) ==
  LET mainArtUrl == artUrlFromHandle(handle)
      customNumber == extractCustomNumberFromLineItem(li)
      customNumberUrl == numberArtUrl(templateRef, customNumber)
      probed == customNumber # <<>>
      compose == probed /\ o.numberHead = "ok"
      numberCalls ==
        IF ~probed THEN <<>>
        ELSE <<Call("HEAD", customNumberUrl,
                    IF o.numberHead = "absent" THEN "fail" ELSE o.numberHead)>>
      compositeCalls ==
        IF ~compose THEN <<>>
        ELSE <<Call("GET", mainArtUrl, IF o.composite = "fetch_fail" THEN "fail" ELSE "ok"),
               Call("GET", customNumberUrl,
                    IF o.composite = "overlay_fail" THEN "fail" ELSE "ok")>>
             \o (IF o.composite \in {"fetch_fail", "overlay_fail"} THEN <<>>
                 ELSE <<Call("composite.upload",
                             compositeUrl(handle, templateRef, customNumber),
                             CASE o.composite = "upload_fail" -> "fail"
                               [] o.composite = "no_url" -> "no_url"
                               [] OTHER -> "ok")>>)
      defaultArtUrl ==
        IF compose THEN compositeUrl(handle, templateRef, customNumber) ELSE mainArtUrl
      failedEarly ==
        (probed /\ o.numberHead = "throw") \/ (compose /\ o.composite # "ok")
      early == numberCalls \o compositeCalls
      mainCalls == Append(early, Call("files.create", defaultArtUrl, o.mainUpload))
      scan == placementScan(templateRef, o.placements, 1, <<>>, mainCalls)
  IN  IF failedEarly THEN [resolved |-> FALSE, item |-> NoItem, calls |-> early]
      ELSE IF o.mainUpload # "ok" THEN [resolved |-> FALSE, item |-> NoItem, calls |-> mainCalls]
      ELSE IF scan.threw THEN [resolved |-> FALSE, item |-> NoItem, calls |-> scan.calls]
      ELSE [resolved |-> TRUE,
            item |-> [variant_id |-> vId,
                      quantity |-> IF li.quantity = -1 THEN 1 ELSE li.quantity,
                      files |-> <<[type |-> <<"d","e","f","a","u","l","t">>,
                                   id |-> defaultArtUrl]>> \o scan.files],
            calls |-> scan.calls]

\* The body of `for (const li of order.line_items)`.
processLineItem(li, o) ==
  LET parsed == parseStructuredSku(li.sku)
      vId == variantLookup(parsed.variantKey)
  IN  IF ~parsed.ok THEN [resolved |-> FALSE, item |-> NoItem, calls |-> <<>>]
      ELSE IF vId = 0 THEN [resolved |-> FALSE, item |-> NoItem, calls |-> <<>>]
      ELSE IF o.handle # "ok"
           THEN [resolved |-> FALSE, item |-> NoItem,
                 calls |-> <<Call("products.get", li.product_id, "fail")>>]
           ELSE LET r == resolveArtwork(li, parsed.templateRef, vId,
                                        productHandle(li.product_id), o)
                IN  [r EXCEPT !.calls = <<Call("products.get", li.product_id, "ok")>> \o @]

(***************************************************************************)
(* Provider answers to the order calls                                     *)
(***************************************************************************)
DupPhrase == <<"e","x","t","e","r","n","a","l"," ","i","d"," ","a","l","r","e","a","d","y"," ","e","x","i","s","t","s">>
MsgDuplicate == <<"E","x","t","e","r","n","a","l"," ","I","D"," ","a","l","r","e","a","d","y"," ","e","x","i","s","t","s">>
MsgOther == <<"B","a","d"," ","r","e","q","u","e","s","t">>

\* The parsed body of the provider's answer: error.api_error_code, error.message,
\* result when it is a string, result.id when it is an object (0: none).
Payload(code, message, result, id) ==
  [api_error_code |-> code, message |-> message, result |-> result, id |-> id]

\* The answer to POST /orders: fetch threw, or a status and a parsed body.
CreateResponses ==
  {[net |-> "throw", httpOk |-> FALSE, payload |-> Payload(Undefined, <<>>, <<>>, 0)],
   [net |-> "ok", httpOk |-> TRUE, payload |-> Payload(Undefined, <<>>, <<>>, 501)],
   [net |-> "ok", httpOk |-> TRUE, payload |-> Payload(Undefined, <<>>, <<>>, 0)],
   [net |-> "ok", httpOk |-> FALSE, payload |-> Payload("OR-13", MsgOther, MsgOther, 0)],
   [net |-> "ok", httpOk |-> FALSE, payload |-> Payload("OR-7", MsgDuplicate, MsgDuplicate, 0)],
   [net |-> "ok", httpOk |-> FALSE, payload |-> Payload(Undefined, <<>>, MsgDuplicate, 0)],
   [net |-> "ok", httpOk |-> FALSE, payload |-> Payload("OR-7", MsgOther, MsgOther, 0)],
   [net |-> "ok", httpOk |-> FALSE, payload |-> Payload(Undefined, <<>>, <<>>, 0)]}

NoCreateResponse ==
  [net |-> "none", httpOk |-> FALSE, payload |-> Payload(Undefined, <<>>, <<>>, 0)]

\* The answer to POST /orders/{id}/confirm.
ConfirmResponses ==
  {[net |-> "throw", httpOk |-> FALSE], [net |-> "ok", httpOk |-> TRUE],
   [net |-> "ok", httpOk |-> FALSE]}

\* A duplicate test that compares the message without lowering its case.
isDuplicateCaseSensitive(payload) ==
  LET code == IF Truthy(payload.api_error_code) THEN payload.api_error_code ELSE ""
      msg == IF payload.message # <<>> THEN payload.message ELSE payload.result
  IN  code = "OR-13" \/ includes(msg, DupPhrase)

\* A duplicate test that takes every refusal for a duplicate.
isDuplicateAlways(payload) == payload = payload

isPrintfulExternalIdDuplicate(payload) ==
  LET code == IF Truthy(payload.api_error_code) THEN payload.api_error_code ELSE ""
      msg == toLowerCase(IF payload.message # <<>> THEN payload.message ELSE payload.result)
  IN  code = "OR-13" \/ includes(msg, DupPhrase)

\* String(n) for a natural number.
DigitChars == <<"0","1","2","3","4","5","6","7","8","9">>
RECURSIVE toString(_)
toString(n) ==
  IF n < 10 THEN <<DigitChars[n + 1]>>
  ELSE toString(n \div 10) \o <<DigitChars[(n % 10) + 1]>>

NoExternalId == <<>>

\* An external id that also counts the line items of the delivery.
externalIdWithItems(o) ==
  <<"N","B","H","L">> \o toString(IF o.order_number # 0 THEN o.order_number ELSE o.id)
  \o <<"-">> \o toString(Len(o.line_items))

\* external_id: `NBHL${order.order_number || order.id}`
externalId(o) ==
  <<"N","B","H","L">> \o toString(IF o.order_number # 0 THEN o.order_number ELSE o.id)


(***************************************************************************)
(* Shipment events and their signature (api/printful-webhook.js)           *)
(***************************************************************************)
\* Shipments per shipment event.
MaxShipments == 2

\* Shipment events delivered one after another for one order.
MaxEvents == 2

\* Number(digits) for a digit string.
RECURSIVE toNumber(_)
toNumber(d) ==
  IF d = <<>> THEN 0
  ELSE 10 * toNumber(SubSeq(d, 1, Len(d) - 1))
       + ((CHOOSE k \in 1..10 : DigitChars[k] = d[Len(d)]) - 1)

EvShipped == <<"p","a","c","k","a","g","e","_","s","h","i","p","p","e","d">>
EvFulfilled == <<"O","r","d","e","r","_","F","u","l","f","i","l","l","e","d">>
EvInProcess == <<"o","r","d","e","r","_","i","n","_","p","r","o","c","e","s","s">>
EvPackaged == <<"o","r","d","e","r","_","p","a","c","k","a","g","e","d">>
EvUpdated == <<"o","r","d","e","r","_","u","p","d","a","t","e","d">>
EvPackagedCaps == <<"O","r","d","e","r","_","P","A","C","K","A","G","E","D">>
EvCreated == <<"o","r","d","e","r","_","c","r","e","a","t","e","d">>
\* body?.event || body?.type || "unknown"
EvUnknown == <<"u","n","k","n","o","w","n">>

ShipmentEvents ==
  {EvShipped, EvFulfilled, EvInProcess, EvPackaged, EvUpdated, EvCreated, EvUnknown}

\* External-id tokens: the direct pattern, an order name, the alternate
\* prefix (of an order number, and of a number no order carries), none.
ExtTokens ==
  {<<"s","h","o","p","i","f","y","-","4","0","2","1">>,
   <<"#","1","0","0","1">>,
   <<"N","B","H","L","1","0","0","1">>,
   <<"n","b","h","l","4","0","2","1">>,
   <<"o","t","h","e","r","-","7","7">>,
   <<"s","h","o","p","i","f","y","-","4","0","2","2">>,
   <<"S","H","O","P","I","F","Y","-","9","9","9","9">>,
   <<>>}

\* A shipment of an event; <<>> is an absent field.
Shipments ==
  {[tracking_number |-> <<"T","1">>, tracking_url |-> <<"u","1">>, carrier |-> <<"U","P","S">>],
   [tracking_number |-> <<"T","2">>, tracking_url |-> <<>>, carrier |-> <<>>]}

NoEvent == [event |-> EvUnknown, ext |-> <<>>, shipments |-> <<>>]
ShipEventBodies ==
  [event : ShipmentEvents, ext : ExtTokens, shipments : SeqsUpTo(Shipments, 1)]
  \cup [event : {EvShipped, EvFulfilled, EvInProcess},
        ext : {<<"s","h","o","p","i","f","y","-","4","0","2","1">>, <<"N","B","H","L","1","0","0","1">>},
        shipments : SeqsUpTo(Shipments, MaxShipments)]
  \cup [event : {EvPackagedCaps},
        ext : {<<"s","h","o","p","i","f","y","-","4","0","2","1">>},
        shipments : SeqsUpTo(Shipments, 1)]

EventBody(e) == [json |-> TRUE, event |-> e]
MalformedEvent == [json |-> FALSE, event |-> NoEvent]
SmallEvent ==
  EventBody([event |-> EvShipped, ext |-> <<"s","h","o","p","i","f","y","-","4","0","2","1">>,
             shipments |-> <<CHOOSE x \in Shipments : x.carrier # <<>> >>])

\* One token of the x-pf-signature header: an optional algorithm tag, optional
\* quotes, and a value that is a digest string or other text of a given
\* length, of which `wide` characters lie outside ASCII.
Token(tag, quoted, value) == [tag |-> tag, quoted |-> quoted, value |-> value]
Junk(len, wide) == [kind |-> "junk", len |-> len, wide |-> wide]

\* The length of a digest string: 64 hex digits for SHA-256, 44 base64
\* characters for SHA-256, 40 hex digits for SHA-1.
valueLength(v) ==
  IF v.kind = "junk" THEN v.len
  ELSE IF v.alg = "sha1" THEN 40
  ELSE IF v.enc = "hex" THEN 64 ELSE 44

tagLength(tag) ==
  CASE tag = "" -> 0 [] tag = "sha1=" -> 5 [] tag = "sha256=" -> 7 [] OTHER -> 3

\* sig.length of the header made of the tokens h, separated by one comma each.
RECURSIVE stringLength(_)
stringLength(h) ==
  IF h = <<>> THEN 0
  ELSE tagLength(h[1].tag) + (IF h[1].quoted THEN 2 ELSE 0) + valueLength(h[1].value)
       + (IF Len(h) > 1 THEN 1 ELSE 0) + stringLength(Tail(h))

\* Buffer.from(sig).length: UTF-8 takes two bytes for a character outside ASCII.
RECURSIVE byteLength(_)
byteLength(h) ==
  IF h = <<>> THEN 0
  ELSE tagLength(h[1].tag) + (IF h[1].quoted THEN 2 ELSE 0) + valueLength(h[1].value)
       + (IF h[1].value.kind = "junk" THEN h[1].value.wide ELSE 0)
       + (IF Len(h) > 1 THEN 1 ELSE 0) + byteLength(Tail(h))

\* The header as one string equals the digest string d.
sameString(h, d) == Len(h) = 1 /\ h[1].tag = "" /\ ~h[1].quoted /\ h[1].value = d

\* verifySignature(headers, raw): "rejected" (false), "accepted" (true), or
\* "threw" (timingSafeEqual raises a RangeError on buffers of unequal byte length).
verifySignature(sig, configured, raw) ==
  LET secret == IF Truthy(configured) THEN configured ELSE ""
      digest == createHmac("sha256", "hex", secret, raw)
  IN  IF sig = <<>> \/ secret = "" THEN "rejected"
      ELSE IF stringLength(sig) # valueLength(digest) THEN "rejected"
      ELSE IF byteLength(sig) # valueLength(digest) THEN "threw"
      ELSE IF sameString(sig, digest) THEN "accepted" ELSE "rejected"

ShipAuthBodies == {MalformedEvent, SmallEvent}

\* Signature headers: none, one bare digest in each format and under each key,
\* tagged and quoted digests, two tagged tokens, and text that is no digest.
ShipHeaders(b) ==
  {<<>>}
  \cup {<<Token("", FALSE, createHmac(a[1], a[2], k, b))>> :
          a \in {<<"sha256", "hex">>, <<"sha256", "base64">>, <<"sha1", "hex">>},
          k \in {"pfs", "pfalt", "guess", ""}}
  \cup {<<Token("sha256=", FALSE, createHmac("sha256", "hex", k, b))>> : k \in {"pfs", "guess"}}
  \cup {<<Token("v1=", TRUE, createHmac("sha256", "base64", "pfs", b))>>,
        <<Token("", TRUE, createHmac("sha256", "hex", "pfs", b))>>,
        <<Token("sha1=", FALSE, createHmac("sha1", "hex", "pfs", b)),
          Token("sha256=", FALSE, createHmac("sha256", "hex", "pfs", b))>>,
        <<Token("sha1=", FALSE, createHmac("sha1", "hex", "guess", b)),
          Token("sha256=", FALSE, createHmac("sha256", "hex", "pfs", b))>>,
        <<Token("sha1=", FALSE, createHmac("sha1", "hex", "guess", b)),
          Token("sha256=", FALSE, createHmac("sha256", "hex", "guess", b))>>,
        <<Token("", FALSE, Junk(64, 0))>>,
        <<Token("", FALSE, Junk(64, 1))>>,
        <<Token("", FALSE, Junk(12, 0))>>,
        <<Token("", FALSE, Junk(31, 0)), Token("", FALSE, Junk(32, 0))>>}

ShipAuthRequests ==
  {[method |-> m, sig |-> h, raw |-> b] :
     m \in {"GET", "POST"}, b \in ShipAuthBodies,
     h \in ShipHeaders(MalformedEvent) \cup ShipHeaders(SmallEvent)}

\* Deliveries of every event, signed as the current handler expects.
ShipSignedRequests ==
  {[method |-> "POST",
    sig |-> <<Token("", FALSE, createHmac("sha256", "hex", "pfs", EventBody(e)))>>,
    raw |-> EventBody(e)] : e \in ShipEventBodies}

ShipRequests == ShipAuthRequests \cup ShipSignedRequests

NoShipRequest == [method |-> "", sig |-> <<>>, raw |-> MalformedEvent]

\* The order source's orders: the name each goes by and, per line item, the
\* quantity still to fulfil.  Order 4021 is partly fulfilled, 4022 wholly.
ShopIds == {4021, 4022}
InitialShop ==
  [i \in ShopIds |->
     IF i = 4021
     THEN [name |-> <<"#","1","0","0","1">>, status |-> "unfulfilled",
           line_items |-> <<[id |-> 11, fulfillable_quantity |-> 1],
                            [id |-> 12, fulfillable_quantity |-> 0],
                            [id |-> 13, fulfillable_quantity |-> 2]>>,
           fulfillments |-> <<>>]
     ELSE [name |-> <<"#","1","0","0","2">>, status |-> "fulfilled",
           line_items |-> <<[id |-> 21, fulfillable_quantity |-> 0]>>,
           fulfillments |-> <<>>]]

\* The invocations of the shipment handler that may be in flight.
Procs == {1, 2}

(***************************************************************************)
(* Inputs of the SKU decoder and the upload cache of the earlier handler   *)
(***************************************************************************)
\* Properties per line item put to the number extraction.
MaxProps == 2

\* Property names: two that the name heuristic matches, one it does not, none.
PropNames ==
  {<<"J","e","r","s","e","y"," ","N","u","m","b","e","r">>, <<" ","c","u","s","t","o","m"," ">>,
   <<"S","i","z","e">>, <<>>}

\* Property values: digits, digits between blanks, none-like, other text, none.
PropValues ==
  {<<"7">>, <<" ","1","2"," ">>, <<"N","o","n","e">>, <<"n","/","a">>, <<"x","9">>, <<>>}

\* CUSTOM_NUMBER_FIELD_KEYS: unset, or naming the field `size`.
KeyLists == {<<>>, << <<"s","i","z","e">> >>}

NoExtract == [stage |-> "none", props |-> <<>>, keys |-> <<>>, number |-> <<>>]

\* Segments of a SKU put to the decoder.
MaxSegments == 5

\* The segments SKUs are made of: empty, digits, lower case, mixed case, with
\* blanks around, with a character that normalization drops.
SegmentPool ==
  {<<>>, <<"7","1">>, <<"b","c">>, <<"R","e","d">>, <<" ","m"," ">>, <<"x","-","l">>}

\* No SKU is at the decoder.
NoDecode == [stage |-> "none", segments |-> <<>>, sku |-> <<>>, result |-> NoSku]

\* The source URLs of the artwork files registered through the cache.
CacheUrls == {"https://cdn.example/a.png", "https://cdn.example/b.png"}

\* The cache file does not exist: loadCache() gives {} (0 stands for no entry).
EmptyCache == [u \in CacheUrls |-> 0]

\* The processes that may run uploadOrReuse at the same time.
CacheProcs == {1, 2}

\* Invocations of uploadOrReuse in one behaviour.
MaxUploads == 3

\* No invocation of uploadOrReuse is running.
NoUpload == [pc |-> "idle", url |-> "", cache |-> EmptyCache, outcome |-> "none", id |-> 0]

(***************************************************************************)
(* State                                                                   *)
(***************************************************************************)
VARIABLES
  env,        \* process.env
  opc,        \* where the order handler stands: idle, verify, parse, loop, confirm, done
  oreq,       \* the request the order handler is serving
  verif,      \* what became of signature verification
  order,      \* the parsed order (JSON.parse(raw))
  parsed,     \* whether JSON.parse has run on the body
  idx,        \* the line item the loop is at
  items,      \* const items = []
  missing,    \* const missing = []
  calls,      \* the outbound calls issued for this request, in order
  draft,      \* the provider's answer to the draft creation
  oresp,      \* the response sent
  sh,         \* the shipment handler's invocations, one record per process
  shop,       \* the order source: its orders, their line items and fulfillments
  scalls,     \* the calls issued to the order source, in order
  dec,        \* a SKU put to the decoder, and what the decoder made of it
  cacheFile,  \* the upload cache on disk: source URL -> file id
  up,         \* the invocations of uploadOrReuse, one record per process
  ucalls,     \* the file registrations issued to the provider, in order
  uinv,       \* the invocations of uploadOrReuse started so far
  events,     \* the shipment events delivered one after another so far
  pf,         \* the provider's orders: external id, order id, draft or confirmed
  sent,       \* every (order, external_id) submitted so far, and whether items were missing
  deliveries  \* deliveries of the request so far

ovars == <<opc, oreq, verif, order, parsed, idx, items, missing, calls, draft, oresp,
           sent, deliveries>>
svars == <<sh, shop, scalls>>
xvars == <<dec, cacheFile, up, ucalls, uinv, events, pf>>
vars == <<env, ovars, svars, xvars>>

\* A response: the status code, the text or the kind of JSON body, and the
\* body's fields.  Status 0 with kind "uncaught" is a handler that threw
\* without responding.
Response(status, kind, ok, fields, miss, ext) ==
  [status |-> status, kind |-> kind, ok |-> ok, fields |-> fields,
   missing |-> miss, external_id |-> ext]

NoResponse == Response(0, "none", FALSE, {}, <<>>, NoExternalId)
Text(status, text) == Response(status, text, FALSE, {}, <<>>, NoExternalId)
Uncaught == Response(0, "uncaught", FALSE, {}, <<>>, NoExternalId)

\* An invocation of the shipment handler before its request arrives.
NoShip ==
  [pc |-> "idle", req |-> NoShipRequest, verif |-> "none", parsed |-> FALSE,
   event |-> NoEvent, orderId |-> 0, fulfillable |-> <<>>, k |-> 0, results |-> <<>>,
   resp |-> NoResponse]

\* A bypass that compares the token without asking that it be non-empty.
debugBypassLoose(debugToken, configured) == debugToken = configured

\* const debugBypass = Boolean(debugToken && debugToken === process.env.DEBUG_TOKEN)
debugBypass(debugToken, configured) == Truthy(debugToken) /\ debugToken = configured

\* const includeTraceInResponse = debugBypass || url.searchParams.get("trace") === "1"
includeTraceInResponse(r, e) == debugBypass(r.token, e.DEBUG_TOKEN) \/ r.trace = "1"

\* The HMAC block of the order handler: "missing", "threw" (createHmac rejects
\* an undefined key with a TypeError), "failed" or "passed".
shopifyHmacCheck(hmacHeader, secret, raw) ==
  IF hmacHeader.kind \in {"absent", "empty"} THEN "missing"
  ELSE IF secret = Undefined THEN "threw"
  ELSE IF createHmac("sha256", "base64", secret, raw) # hmacHeader THEN "failed"
  ELSE "passed"

\* The JSON body of a 200 response, with the trace when it is asked for.
Json(kind, ok, fields, ext) ==
  Response(200, kind, ok,
           fields \cup (IF includeTraceInResponse(oreq, env) THEN {"trace"} ELSE {}),
           missing, ext)

(***************************************************************************)
(* The order handler                                                       *)
(***************************************************************************)
\* No order request has arrived.
OrderIdle ==
  /\ opc = "idle"
  /\ oreq = NoRequest
  /\ verif = "none"
  /\ order = NoOrder
  /\ parsed = FALSE
  /\ idx = 0
  /\ items = <<>>
  /\ missing = <<>>
  /\ calls = <<>>
  /\ draft = NoCreateResponse
  /\ oresp = NoResponse
  /\ sent = {}
  /\ deliveries = 0
  /\ pf = {}

\* No shipment event has arrived; the order source holds its orders.
ShipIdle ==
  /\ sh = [p \in Procs |-> NoShip]
  /\ shop = InitialShop
  /\ scalls = <<>>
  /\ events = 0

\* No artwork has been registered through the cache.
CacheIdle ==
  /\ cacheFile = EmptyCache
  /\ up = [p \in CacheProcs |-> NoUpload]
  /\ ucalls = <<>>
  /\ uinv = <<>>

Init ==
  /\ env \in Envs
  /\ OrderIdle
  /\ ShipIdle
  /\ dec = NoDecode
  /\ CacheIdle

\* if (req.method !== "POST") return res.status(405)...
OrderStart(r) ==
  /\ oreq' = r
  /\ verif' = "none"
  /\ order' = NoOrder
  /\ parsed' = FALSE
  /\ idx' = 0
  /\ items' = <<>>
  /\ missing' = <<>>
  /\ calls' = <<>>
  /\ draft' = NoCreateResponse
  /\ deliveries' = deliveries + 1
  /\ IF r.method # "POST"
     THEN opc' = "done" /\ oresp' = Text(405, "Method Not Allowed")
     ELSE opc' = "verify" /\ oresp' = NoResponse
  /\ UNCHANGED <<env, sent>>

OrderReceive ==
  /\ opc = "idle"
  /\ \A p \in Procs : sh[p].pc = "idle"
  /\ \E r \in OrderRequests : OrderStart(r)
  /\ UNCHANGED svars
  /\ UNCHANGED xvars

\* The raw body is read; the bypass token and the signature are checked.
OrderVerify ==
  /\ opc = "verify"
  /\ LET check == shopifyHmacCheck(oreq.hmac, env.SHOPIFY_WEBHOOK_SECRET, oreq.raw)
     IN  IF debugBypass(oreq.token, env.DEBUG_TOKEN)
         THEN verif' = "skipped" /\ opc' = "parse" /\ oresp' = oresp
         ELSE /\ verif' = check
              /\ CASE check = "missing" -> opc' = "done" /\ oresp' = Text(401, "Missing HMAC")
                   [] check = "threw" -> opc' = "done" /\ oresp' = Uncaught
                   [] check = "failed" ->
                        opc' = "done" /\ oresp' = Text(401, "HMAC validation failed")
                   [] OTHER -> opc' = "parse" /\ oresp' = oresp
  /\ UNCHANGED <<env, oreq, order, parsed, idx, items, missing, calls, draft, sent,
                 deliveries>>
  /\ UNCHANGED svars
  /\ UNCHANGED xvars

\* try { order = JSON.parse(raw); } catch { return res.status(400)... }
OrderParse ==
  /\ opc = "parse"
  /\ parsed' = TRUE
  /\ IF oreq.raw.json
     THEN opc' = "loop" /\ order' = oreq.raw.order /\ idx' = 1 /\ oresp' = oresp
     ELSE opc' = "done" /\ order' = order /\ idx' = idx /\ oresp' = Text(400, "Invalid JSON")
  /\ UNCHANGED <<env, oreq, verif, items, missing, calls, draft, sent, deliveries>>
  /\ UNCHANGED svars
  /\ UNCHANGED xvars

\* One line item: decoded, resolved, its artwork registered, or recorded missing.
\* missing.push(li?.sku || li.title), once per line item: only new SKUs recorded.
recordMissingOnce(miss, li) ==
  IF \E k \in 1..Len(miss) : miss[k] = missingEntry(li) THEN miss
  ELSE Append(miss, missingEntry(li))

\* missing.push(li?.sku || li.title)
recordMissing(miss, li) == Append(miss, missingEntry(li))

OrderLineItem ==
  /\ opc = "loop"
  /\ idx <= Len(order.line_items)
  /\ \E o \in LineOutcomes :
       LET li == order.line_items[idx]
           r == processLineItem(li, o)
       IN  /\ items' = IF r.resolved THEN Append(items, r.item) ELSE items
           /\ missing' = IF r.resolved THEN missing ELSE recordMissing(missing, li)
           /\ calls' = calls \o r.calls
  /\ idx' = idx + 1
  /\ UNCHANGED <<env, opc, oreq, verif, order, parsed, draft, oresp, sent, deliveries>>
  /\ UNCHANGED svars
  /\ UNCHANGED xvars

\* if (items.length === 0) return res.status(200).json({ ok:false, reason, missing })
OrderNoValidItems ==
  /\ opc = "loop"
  /\ idx > Len(order.line_items)
  /\ items = <<>>
  /\ opc' = "done"
  /\ oresp' = Json("no_valid_items", FALSE, {"ok", "reason", "missing"}, NoExternalId)
  /\ UNCHANGED <<env, oreq, verif, order, parsed, idx, items, missing, calls, draft, sent,
                 deliveries>>
  /\ UNCHANGED svars
  /\ UNCHANGED xvars

\* A draft that carries the first resolved item only.
draftOrderFirstItem(o, its) ==
  [external_id |-> externalId(o), items |-> SubSeq(its, 1, 1), shipping |-> "STANDARD",
   confirm |-> FALSE]

\* A draft whose items come last first.
draftOrderReversed(o, its) ==
  [external_id |-> externalId(o), items |-> [k \in 1..Len(its) |-> its[Len(its) + 1 - k]],
   shipping |-> "STANDARD", confirm |-> FALSE]

\* A draft that asks for confirmation at once.
draftOrderConfirming(o, its) ==
  [external_id |-> externalId(o), items |-> its, shipping |-> "STANDARD", confirm |-> TRUE]

\* const draftOrder = { recipient, items, external_id, shipping, store_id, confirm: false }
draftOrder(o, its) ==
  [external_id |-> externalId(o), items |-> its, shipping |-> "STANDARD", confirm |-> FALSE]

\* The catch block of the submission: { ok: false, error, missing }.
UpstreamFailure == Json("error", FALSE, {"ok", "error", "missing"}, NoExternalId)

\* Step 1: create the draft, and decide on its answer, one of `answers`.
createDraft(answers) ==
  /\ opc = "loop"
  /\ idx > Len(order.line_items)
  /\ items # <<>>
  /\ \E cr \in answers :
       /\ calls' = Append(calls, Call("orders.create", draftOrder(order, items),
                                      IF cr.net = "throw" THEN "throw"
                                      ELSE IF cr.httpOk THEN "ok" ELSE "fail"))
       /\ draft' = cr
       /\ sent' = sent \cup {[id |-> order.id, order_number |-> order.order_number,
                              external_id |-> draftOrder(order, items).external_id,
                              partial |-> missing # <<>>]}
       /\ IF cr.net = "throw" THEN opc' = "done" /\ oresp' = UpstreamFailure
          ELSE IF ~cr.httpOk
               THEN /\ opc' = "done"
                    /\ oresp' = IF isPrintfulExternalIdDuplicate(cr.payload)
                                THEN Json("already_exists", TRUE,
                                          {"ok", "already_exists", "external_id", "missing"},
                                          draftOrder(order, items).external_id)
                                ELSE UpstreamFailure
               ELSE IF cr.payload.id = 0 THEN opc' = "done" /\ oresp' = UpstreamFailure
               ELSE opc' = "confirm" /\ oresp' = oresp
  /\ UNCHANGED <<env, oreq, verif, order, parsed, idx, items, missing, deliveries>>
  /\ UNCHANGED svars

\* The provider answers the creation in any way.
OrderCreateDraft ==
  /\ createDraft(CreateResponses)
  /\ UNCHANGED xvars

\* The order id the confirm call targets: draftPayload?.result?.id
confirmTarget(cr) == cr.payload.id

\* Step 2: confirm the draft.
confirmDraft ==
  /\ opc = "confirm"
  /\ \E cf \in ConfirmResponses :
       /\ calls' = Append(calls, Call("orders.confirm", confirmTarget(draft),
                                      IF cf.net = "throw" THEN "throw"
                                      ELSE IF cf.httpOk THEN "ok" ELSE "fail"))
       /\ oresp' = IF cf.net = "ok" /\ cf.httpOk
                   THEN Json("confirmed", TRUE, {"ok", "draft", "confirmed", "missing"},
                             NoExternalId)
                   ELSE UpstreamFailure
  /\ opc' = "done"
  /\ UNCHANGED <<env, oreq, verif, order, parsed, idx, items, missing, draft, sent,
                 deliveries>>
  /\ UNCHANGED svars

OrderConfirm ==
  /\ confirmDraft
  /\ UNCHANGED xvars

(***************************************************************************)
(* The shipment handler (api/printful-webhook.js)                          *)
(***************************************************************************)
\* A call to the order source made by invocation p.
ShopCall(p, op, target, outcome) ==
  [p |-> p, op |-> op, target |-> target, outcome |-> outcome]

\* res.status(200).json({ ok, ... })
ShipJson(kind, ok, results) ==
  [status |-> 200, kind |-> kind, ok |-> ok, fulfillments |-> results]

\* The match without the i flag.
matchDigitsExact(ext, prefix) ==
  IF /\ Len(ext) > Len(prefix)
     /\ SubSeq(ext, 1, Len(prefix)) = prefix
     /\ isDigits(SubSeq(ext, Len(prefix) + 1, Len(ext)))
  THEN SubSeq(ext, Len(prefix) + 1, Len(ext))
  ELSE <<>>

\* String(ext).match(/^<prefix>(\d+)$/i): the digits, or <<>> without a match.
matchDigits(ext, prefix) ==
  IF /\ Len(ext) > Len(prefix)
     /\ toLowerCase(SubSeq(ext, 1, Len(prefix))) = toLowerCase(prefix)
     /\ isDigits(SubSeq(ext, Len(prefix) + 1, Len(ext)))
  THEN SubSeq(ext, Len(prefix) + 1, Len(ext))
  ELSE <<>>

\* /package_shipped|order_updated|order_fulfilled|order_in_process|order_packaged/i
isFulfillmentEvent(event) ==
  \E w \in {EvShipped, EvUpdated, toLowerCase(EvFulfilled), EvInProcess, EvPackaged} :
     includes(toLowerCase(event), w)

\* The stage pattern without the i flag.
isStageEventExact(event) ==
  \E w \in {EvInProcess, EvPackaged} : includes(event, w)

\* /order_in_process|order_packaged/i
isStageEvent(event) ==
  \E w \in {EvInProcess, EvPackaged} : includes(toLowerCase(event), w)

\* The shipped pattern without the i flag.
isShippedEventExact(event) ==
  \E w \in {EvShipped, toLowerCase(EvFulfilled)} : includes(event, w)

\* /package_shipped|order_fulfilled/i
isShippedEvent(event) ==
  \E w \in {EvShipped, toLowerCase(EvFulfilled)} : includes(toLowerCase(event), w)

\* findShopifyOrderIdByName(name): what the order source may answer.  A lookup
\* that fails throws; otherwise the id of the first order of that name, 0
\* (null) for none.  An empty name filters nothing, so any order may come first.
findShopifyOrderIdByName(name) ==
  {[threw |-> TRUE, id |-> 0]}
  \cup {[threw |-> FALSE, id |-> i] :
          i \in IF name = <<>> THEN ShopIds \cup {0}
                ELSE IF \E j \in ShopIds : shop[j].name = name
                     THEN {CHOOSE j \in ShopIds : shop[j].name = name}
                     ELSE {0}}

\* What follows the resolution of the order id: the two early answers, or the
\* fetch of the order.
afterResolve(rec, id) ==
  IF ~isFulfillmentEvent(rec.event.event)
  THEN [rec EXCEPT !.orderId = id, !.pc = "done", !.resp = ShipJson("ignored", TRUE, <<>>)]
  ELSE IF id = 0
       THEN [rec EXCEPT !.orderId = id, !.pc = "done",
                        !.resp = ShipJson("no_external_id", TRUE, <<>>)]
       ELSE [rec EXCEPT !.orderId = id, !.pc = "fetch"]

ShipStart(p, r) ==
  sh' = [sh EXCEPT ![p] =
           IF r.method # "POST"
           THEN [NoShip EXCEPT !.req = r, !.pc = "done",
                               !.resp = Text(405, "Method Not Allowed")]
           ELSE [NoShip EXCEPT !.req = r, !.pc = "verify"]]

\* A shipment event arrives.
ShipReceive(p) ==
  /\ opc = "idle"
  /\ \A q \in Procs : sh[q].pc = "idle"
  /\ \E r \in ShipRequests : ShipStart(p, r)
  /\ UNCHANGED <<env, ovars, shop, scalls>>
  /\ UNCHANGED xvars

\* if (!verifySignature(req.headers, raw)) return res.status(401)...
ShipVerify(p) ==
  /\ sh[p].pc = "verify"
  /\ LET v == verifySignature(sh[p].req.sig, env.PRINTFUL_WEBHOOK_SECRET, sh[p].req.raw)
     IN  sh' = [sh EXCEPT ![p] =
                  CASE v = "accepted" -> [@ EXCEPT !.verif = v, !.pc = "parse"]
                    [] v = "rejected" ->
                         [@ EXCEPT !.verif = v, !.pc = "done",
                                   !.resp = Text(401, "Invalid signature")]
                    [] OTHER -> [@ EXCEPT !.verif = v, !.pc = "done", !.resp = Uncaught]]
  /\ UNCHANGED <<env, ovars, shop, scalls>>
  /\ UNCHANGED xvars

\* try { body = JSON.parse(raw); } catch { return res.status(400)... }
ShipParse(p) ==
  /\ sh[p].pc = "parse"
  /\ sh' = [sh EXCEPT ![p] =
              IF @.req.raw.json
              THEN [@ EXCEPT !.parsed = TRUE, !.event = sh[p].req.raw.event, !.pc = "resolve"]
              ELSE [@ EXCEPT !.parsed = TRUE, !.pc = "done",
                             !.resp = Text(400, "Invalid JSON")]]
  /\ UNCHANGED <<env, ovars, shop, scalls>>
  /\ UNCHANGED xvars

\* The order id: the direct pattern, else a lookup of the token as a name.
ShipResolve(p) ==
  /\ sh[p].pc = "resolve"
  /\ LET ext == sh[p].event.ext
         m == matchDigits(ext, <<"s","h","o","p","i","f","y","-">>)
         m2 == matchDigits(ext, <<"N","B","H","L">>)
     IN  IF m # <<>>
         THEN /\ sh' = [sh EXCEPT ![p] = afterResolve(@, toNumber(m))]
              /\ scalls' = scalls
         ELSE \E byName \in findShopifyOrderIdByName(ext) :
                /\ scalls' = Append(scalls, ShopCall(p, "orders.byName", ext,
                                                     IF byName.threw THEN "throw" ELSE "ok"))
                /\ sh' = [sh EXCEPT ![p] =
                            IF byName.threw
                            THEN [@ EXCEPT !.pc = "done", !.resp = Uncaught]
                            ELSE IF byName.id # 0 THEN afterResolve(@, byName.id)
                            ELSE IF m2 # <<>> THEN [@ EXCEPT !.pc = "resolveAlt"]
                            ELSE afterResolve(@, 0)]
  /\ UNCHANGED <<env, ovars, shop>>
  /\ UNCHANGED xvars

\* const altName = `#${m2[1]}`; shopifyOrderId = await findShopifyOrderIdByName(altName)
ShipResolveAlt(p) ==
  /\ sh[p].pc = "resolveAlt"
  /\ LET altName == <<"#">> \o matchDigits(sh[p].event.ext, <<"N","B","H","L">>)
     IN  \E byName \in findShopifyOrderIdByName(altName) :
           /\ scalls' = Append(scalls, ShopCall(p, "orders.byName", altName,
                                                IF byName.threw THEN "throw" ELSE "ok"))
           /\ sh' = [sh EXCEPT ![p] =
                       IF byName.threw
                       THEN [@ EXCEPT !.pc = "done", !.resp = Uncaught]
                       ELSE afterResolve(@, byName.id)]
  /\ UNCHANGED <<env, ovars, shop>>
  /\ UNCHANGED xvars

\* (order.line_items || []).filter(li => (li.fulfillable_quantity ?? 0) > 0).map(li => li.id)
fulfillableIds(lis) ==
  LET F[i \in 0..Len(lis)] ==
        IF i = 0 THEN <<>>
        ELSE IF lis[i].fulfillable_quantity > 0 THEN Append(F[i - 1], lis[i].id)
        ELSE F[i - 1]
  IN  F[Len(lis)]

\* try { order = await getShopifyOrder(shopifyOrderId); } catch { 200 ok:false }
\* and the branch the event selects.  An id the order source does not hold is
\* answered with an error.
ShipFetchOrder(p) ==
  /\ sh[p].pc = "fetch"
  /\ \E fetched \in {b \in BOOLEAN : b => sh[p].orderId \in ShopIds} :
       /\ scalls' = Append(scalls, ShopCall(p, "orders.get", sh[p].orderId,
                                            IF fetched THEN "ok" ELSE "throw"))
       /\ sh' = [sh EXCEPT ![p] =
                   IF ~fetched
                   THEN [@ EXCEPT !.pc = "done",
                                  !.resp = ShipJson("shopify_fetch_failed", FALSE, <<>>)]
                   ELSE LET ids == fulfillableIds(shop[@.orderId].line_items)
                            ev == @.event.event
                        IN  IF isStageEvent(ev)
                            THEN [@ EXCEPT !.fulfillable = ids, !.pc = "stage"]
                            ELSE IF isShippedEvent(ev)
                            THEN [@ EXCEPT !.fulfillable = ids, !.k = 1,
                                           !.pc = IF ids = <<>> THEN "already"
                                                  ELSE IF sh[p].event.shipments # <<>>
                                                       THEN "fulfil" ELSE "mark"]
                            ELSE [@ EXCEPT !.fulfillable = ids, !.pc = "done",
                                           !.resp = ShipJson("handled", TRUE, <<>>)]]
  /\ UNCHANGED <<env, ovars, shop>>
  /\ UNCHANGED xvars

\* markOrderStatus(orderId, status): the write succeeds, is refused (and only
\* logged), or the request itself fails and throws.
MarkOutcomes == {"ok", "fail", "throw"}
markOrderStatus(p, status, outcome) ==
  /\ scalls' = Append(scalls, ShopCall(p, "orders.mark",
                                       [id |-> sh[p].orderId, status |-> status], outcome))
  /\ shop' = IF outcome = "ok" THEN [shop EXCEPT ![sh[p].orderId].status = status] ELSE shop

\* await markOrderStatus(shopifyOrderId, "in_progress"); 200 in_progress
ShipMarkInProgress(p) ==
  /\ sh[p].pc = "stage"
  /\ \E outcome \in MarkOutcomes :
       /\ markOrderStatus(p, "in_progress", outcome)
       /\ sh' = [sh EXCEPT ![p] =
                   [@ EXCEPT !.pc = "done",
                             !.resp = IF outcome = "throw" THEN Uncaught
                                      ELSE ShipJson("in_progress", TRUE, <<>>)]]
  /\ UNCHANGED <<env, ovars>>
  /\ UNCHANGED xvars

\* if (fulfillable.length === 0) { await markOrderStatus(.., "fulfilled"); 200 }
ShipAlreadyFulfilled(p) ==
  /\ sh[p].pc = "already"
  /\ \E outcome \in MarkOutcomes :
       /\ markOrderStatus(p, "fulfilled", outcome)
       /\ sh' = [sh EXCEPT ![p] =
                   [@ EXCEPT !.pc = "done",
                             !.resp = IF outcome = "throw" THEN Uncaught
                                      ELSE ShipJson("alreadyFulfilled", TRUE, <<>>)]]
  /\ UNCHANGED <<env, ovars>>
  /\ UNCHANGED xvars

\* The tracking of shipment s without a default for the carrier.
trackingOfNoDefault(s) ==
  [number |-> s.tracking_number, url |-> s.tracking_url, company |-> s.carrier]

\* createShopifyFulfillment({ orderId, tracking, lineItemIds }): the tracking
\* sent for shipment s, with the defaults of the code.
trackingOf(s) ==
  [number |-> s.tracking_number, url |-> s.tracking_url,
   company |-> IF s.carrier # <<>> THEN s.carrier ELSE <<"C","a","r","r","i","e","r">>]

\* The order source fulfils the line items named: nothing of them remains.
fulfilled(o, ids, tracking) ==
  [o EXCEPT
     !.line_items = [i \in 1..Len(o.line_items) |->
                       IF \E j \in 1..Len(ids) : ids[j] = o.line_items[i].id
                       THEN [o.line_items[i] EXCEPT !.fulfillable_quantity = 0]
                       ELSE o.line_items[i]],
     !.fulfillments = Append(@, [line_items |-> ids, tracking |-> tracking])]

\* A loop that logs a refused creation and goes on to the next shipment.
afterCreateContinuing(rec, created, tracking) ==
  [rec EXCEPT !.results = IF created THEN Append(@, tracking) ELSE @,
              !.k = @ + 1,
              !.pc = IF rec.k = Len(rec.event.shipments) THEN "mark" ELSE "fulfil"]

\* results.push(resp) and the next shipment, or the catch block:
\* 200 { ok: false, reason: "fulfillment_failed" }
afterCreate(rec, created, tracking) ==
  IF ~created
  THEN [rec EXCEPT !.pc = "done", !.resp = ShipJson("fulfillment_failed", FALSE, <<>>)]
  ELSE [rec EXCEPT !.results = Append(@, tracking), !.k = @ + 1,
                   !.pc = IF rec.k = Len(rec.event.shipments) THEN "mark" ELSE "fulfil"]

\* for (const s of shipments) { results.push(await createShopifyFulfillment(...)) }
\* The order source accepts the fulfillment or answers with an error.
ShipCreateFulfillment(p) ==
  /\ sh[p].pc = "fulfil"
  /\ sh[p].k <= Len(sh[p].event.shipments)
  /\ LET id == sh[p].orderId
         ids == sh[p].fulfillable
         tracking == trackingOf(sh[p].event.shipments[sh[p].k])
     IN  \E created \in BOOLEAN :
           /\ scalls' = Append(scalls,
                               ShopCall(p, "fulfillments.create",
                                        [id |-> id, line_items |-> ids, tracking |-> tracking],
                                        IF created THEN "ok" ELSE "throw"))
           /\ shop' = IF created THEN [shop EXCEPT ![id] = fulfilled(@, ids, tracking)]
                      ELSE shop
           /\ sh' = [sh EXCEPT ![p] = afterCreate(@, created, tracking)]
  /\ UNCHANGED <<env, ovars>>
  /\ UNCHANGED xvars

\* await markOrderStatus(shopifyOrderId, "fulfilled"), inside the try block.
ShipMarkFulfilled(p) ==
  /\ sh[p].pc = "mark"
  /\ \E outcome \in MarkOutcomes :
       /\ markOrderStatus(p, "fulfilled", outcome)
       /\ sh' = [sh EXCEPT ![p] =
                   [@ EXCEPT !.pc = "done",
                             !.resp = IF outcome = "throw"
                                      THEN ShipJson("fulfillment_failed", FALSE, <<>>)
                                      ELSE ShipJson("fulfillments", TRUE, sh[p].results)]]
  /\ UNCHANGED <<env, ovars>>
  /\ UNCHANGED xvars

\* One delivery of a shipment event, handled by invocation p.
ShipNext(p) ==
  \/ ShipReceive(p)
  \/ ShipVerify(p)
  \/ ShipParse(p)
  \/ ShipResolve(p)
  \/ ShipResolveAlt(p)
  \/ ShipFetchOrder(p)
  \/ ShipMarkInProgress(p)
  \/ ShipAlreadyFulfilled(p)
  \/ ShipCreateFulfillment(p)
  \/ ShipMarkFulfilled(p)

\* One delivery of an order event.
OrderNext ==
  \/ OrderReceive
  \/ OrderVerify
  \/ OrderParse
  \/ OrderLineItem
  \/ OrderNoValidItems
  \/ OrderCreateDraft
  \/ OrderConfirm

\* One request, to either handler.
Next ==
  \/ OrderNext
  \/ ShipNext(1)

Spec == Init /\ [][Next]_vars

\* The order source delivers the same order event again: the handler starts
\* afresh, and keeps nothing of the earlier delivery.
Redeliver ==
  /\ opc = "done"
  /\ deliveries < MaxDeliveries
  /\ OrderStart(oreq)
  /\ UNCHANGED svars
  /\ UNCHANGED xvars

NextRedelivery ==
  \/ OrderNext
  \/ Redeliver

SpecRedelivery == Init /\ [][NextRedelivery]_vars

(***************************************************************************)
(* The SKU decoder on its own                                              *)
(***************************************************************************)
\* The SKUs put to the decoder: one to MaxSegments segments joined by `_`.
SkuInputs ==
  {[stage |-> "input", segments |-> g, sku |-> join(g), result |-> NoSku] :
     g \in SeqsUpTo(SegmentPool, MaxSegments) \ {<<>>}}

InitSku ==
  /\ env = CHOOSE e \in Envs : e.SHOPIFY_WEBHOOK_SECRET = "shh"
  /\ OrderIdle
  /\ ShipIdle
  /\ dec \in SkuInputs
  /\ CacheIdle

\* const parsed = parseStructuredSku(li?.sku)
Decode ==
  /\ dec.stage = "input"
  /\ dec' = [dec EXCEPT !.stage = "decoded", !.result = parseStructuredSku(dec.sku)]
  /\ UNCHANGED <<env, ovars, svars, cacheFile, up, ucalls, uinv, events, pf>>

NextSku == Decode

SpecSku == InitSku /\ [][NextSku]_vars

(***************************************************************************)
(* The personalization number of a line item                               *)
(***************************************************************************)
NumberInputs ==
  {[stage |-> "input", props |-> q, keys |-> k, number |-> <<>>] :
     q \in SeqsUpTo([name : PropNames, value : PropValues], MaxProps), k \in KeyLists}

InitNumber ==
  /\ env = CHOOSE e \in Envs : e.SHOPIFY_WEBHOOK_SECRET = "shh"
  /\ OrderIdle /\ ShipIdle /\ dec \in NumberInputs /\ CacheIdle

ExtractNumber ==
  /\ dec.stage = "input"
  /\ dec' = [dec EXCEPT !.stage = "extracted",
                        !.number = extractCustomNumber(dec.props, dec.keys)]
  /\ UNCHANGED <<env, ovars, svars, cacheFile, up, ucalls, uinv, events, pf>>

NextNumber == ExtractNumber
SpecNumber == InitNumber /\ [][NextNumber]_vars

(***************************************************************************)
(* Shipment events delivered one after another                             *)
(***************************************************************************)
\* Events for order 4021 in any order, with and without a shipment, under the
\* direct token and under the alternate prefix.
SequenceEvents ==
  [event : {EvInProcess, EvShipped},
   ext : {<<"s","h","o","p","i","f","y","-","4","0","2","1">>},
   shipments : SeqsUpTo({CHOOSE x \in Shipments : x.carrier # <<>>}, 1)]
  \cup [event : {EvInProcess}, ext : {<<"N","B","H","L","1","0","0","1">>},
        shipments : {<<>>}]

SequenceRequests ==
  {[method |-> "POST",
    sig |-> <<Token("", FALSE, createHmac("sha256", "hex", "pfs", EventBody(e)))>>,
    raw |-> EventBody(e)] : e \in SequenceEvents}

InitSequence ==
  /\ env = CHOOSE e \in Envs : e.PRINTFUL_WEBHOOK_SECRET = "pfs"
  /\ OrderIdle /\ ShipIdle /\ dec = NoDecode /\ CacheIdle

\* The provider delivers an event, the first or a further one: each delivery
\* is a fresh invocation that keeps nothing of the earlier ones.
ShipDeliver(p) ==
  /\ sh[p].pc \in {"idle", "done"}
  /\ events < MaxEvents
  /\ events' = events + 1
  /\ \E r \in SequenceRequests : ShipStart(p, r)
  /\ UNCHANGED <<env, ovars, shop, scalls, dec, cacheFile, up, ucalls, uinv, pf>>

NextSequence ==
  \/ ShipDeliver(1)
  \/ ShipVerify(1)
  \/ ShipParse(1)
  \/ ShipResolve(1)
  \/ ShipResolveAlt(1)
  \/ ShipFetchOrder(1)
  \/ ShipMarkInProgress(1)
  \/ ShipAlreadyFulfilled(1)
  \/ ShipCreateFulfillment(1)
  \/ ShipMarkFulfilled(1)

SpecSequence == InitSequence /\ [][NextSequence]_vars

(***************************************************************************)
(* The upload cache: concurrent invocations of uploadOrReuse               *)
(***************************************************************************)
InitCache ==
  /\ env = CHOOSE e \in Envs : e.SHOPIFY_WEBHOOK_SECRET = "shh"
  /\ OrderIdle /\ ShipIdle /\ dec = NoDecode /\ CacheIdle

\* What uploadOrReuse leaves in the cache file after the provider answered,
\* saving even when the answer is an error.
savedCacheUnchecked(file, local, url, ok, id) == [local EXCEPT ![url] = id]

\* What uploadOrReuse leaves in the cache file after the provider answered:
\* `if (!res.ok) throw` comes before `cache[fileUrl] = fileId; saveCache(cache)`,
\* and saveCache writes the whole copy that loadCache read at the start.
savedCache(file, local, url, ok, id) ==
  IF ok THEN [local EXCEPT ![url] = id] ELSE file

\* const cache = loadCache(); if (cache[fileUrl]) return cache[fileUrl];
\* otherwise the POST /files request is sent and awaited.
UploadStart(p, url) ==
  /\ up[p].pc \in {"idle", "done"}
  /\ Len(uinv) < MaxUploads
  /\ LET cache == cacheFile
     IN  /\ up' = [up EXCEPT ![p] =
                     IF cache[url] # 0
                     THEN [pc |-> "done", url |-> url, cache |-> cache,
                           outcome |-> "hit", id |-> cache[url]]
                     ELSE [pc |-> "fetching", url |-> url, cache |-> cache,
                           outcome |-> "none", id |-> 0]]
         /\ uinv' = Append(uinv, [p |-> p, url |-> url, hit |-> cache[url] # 0])
  /\ UNCHANGED <<env, ovars, svars, dec, cacheFile, ucalls, events, pf>>

\* The provider answers the POST /files of process p: an error, or a file id
\* it has not given out before.
UploadRespond(p, ok) ==
  /\ up[p].pc = "fetching"
  /\ LET fileId == IF ok THEN Len(ucalls) + 1 ELSE 0
     IN  /\ ucalls' = Append(ucalls, [p |-> p, url |-> up[p].url, ok |-> ok, id |-> fileId])
         /\ cacheFile' = savedCache(cacheFile, up[p].cache, up[p].url, ok, fileId)
         /\ up' = [up EXCEPT ![p] = [pc |-> "done", url |-> up[p].url,
                                     cache |-> up[p].cache,
                                     outcome |-> IF ok THEN "returned" ELSE "threw",
                                     id |-> fileId]]
  /\ UNCHANGED <<env, ovars, svars, dec, uinv, events, pf>>

NextCache ==
  \/ \E p \in CacheProcs, url \in CacheUrls : UploadStart(p, url)
  \/ \E p \in CacheProcs, ok \in BOOLEAN : UploadRespond(p, ok)

SpecCache == InitCache /\ [][NextCache]_vars

(***************************************************************************)
(* Properties of signature verification and of the status codes             *)
(***************************************************************************)
\* The request's token is the operators' secret: non-empty on both sides, equal.
TokenIsOperatorSecret ==
  /\ oreq.token \notin {Undefined, ""}
  /\ env.DEBUG_TOKEN \notin {Undefined, ""}
  /\ oreq.token = env.DEBUG_TOKEN

\* The header is the base64 HMAC-SHA256 of the raw body under the configured secret.
ShopifySignatureValid ==
  /\ env.SHOPIFY_WEBHOOK_SECRET \notin {Undefined, ""}
  /\ oreq.hmac = [kind |-> "digest", alg |-> "sha256", enc |-> "base64",
                  key |-> env.SHOPIFY_WEBHOOK_SECRET, msg |-> oreq.raw]

\* C1: in the order handler, when no debug bypass applies, a POST request is
\* accepted for processing if and only if its signature header is the base64
\* HMAC-SHA256 of the raw body under the configured secret; with a missing
\* header, a missing secret or a body other than the signed one the request is
\* answered 401 and no outbound call is made for it.
C1_SignatureGate ==
  (opc = "done" /\ oreq.method = "POST" /\ ~TokenIsOperatorSecret) =>
     IF ShopifySignatureValid
     THEN verif = "passed" /\ parsed /\ oresp.status \in {200, 400}
     ELSE oresp.status = 401 /\ ~parsed /\ calls = <<>>

\* The three candidate digests of Scheme B for a raw body under a secret.
CandidateDigests(secret, raw) ==
  {[kind |-> "digest", alg |-> "sha256", enc |-> "hex", key |-> secret, msg |-> raw],
   [kind |-> "digest", alg |-> "sha256", enc |-> "base64", key |-> secret, msg |-> raw],
   [kind |-> "digest", alg |-> "sha1", enc |-> "hex", key |-> secret, msg |-> raw]}

\* Some token of the signature header, its tag and quotes stripped, is a
\* candidate digest of the raw body under the configured secret.
SomeTokenMatches(p) ==
  /\ env.PRINTFUL_WEBHOOK_SECRET \notin {Undefined, ""}
  /\ \E i \in 1..Len(sh[p].req.sig) :
        sh[p].req.sig[i].value
          \in CandidateDigests(env.PRINTFUL_WEBHOOK_SECRET, sh[p].req.raw)

\* The shipment handler has decided on the signature of a POST request.
ShipVerified(p) == sh[p].pc \notin {"idle", "verify"} /\ sh[p].req.method = "POST"

\* C2: the shipment handler's signature check accepts a request exactly when
\* some token of the signature header, stripped of an optional tag and of
\* quotes, equals one of the three candidate digests (HMAC-SHA256 hex,
\* HMAC-SHA256 base64, HMAC-SHA1 hex) of the raw body.
C2_AnyTokenAnyDigest ==
  \A p \in Procs :
     ShipVerified(p) => (sh[p].verif = "accepted" <=> SomeTokenMatches(p))

\* C3: in the shipment handler a POST request whose signature header is
\* missing, whose secret is not configured, or whose header matches no
\* candidate digest, whatever its length, is answered 401, and no call to the
\* order source is made for it.
C3_UnsignedIsRejected ==
  \A p \in Procs :
     (ShipVerified(p) /\ ~SomeTokenMatches(p)) =>
        /\ sh[p].pc = "done"
        /\ sh[p].resp.status = 401
        /\ \A i \in 1..Len(scalls) : scalls[i].p # p

\* The status the ladder of checks prescribes: 405 for a method other than
\* POST, 401 for a failed verification, 400 for a verified body that is not
\* JSON, 200 for every other outcome.
LadderStatus(method, verified, json) ==
  IF method # "POST" THEN 405
  ELSE IF ~verified THEN 401
  ELSE IF ~json THEN 400
  ELSE 200

\* C4: in both handlers the checks run in the order method, signature, body:
\* another method than POST gets 405, a failed verification gets 401 even when
\* the body is not JSON, the body is parsed only after verification succeeded,
\* a verified body that is not JSON gets 400, and every other outcome gets 200.
C4_StatusLadder ==
  /\ parsed => verif \in {"passed", "skipped"}
  /\ opc = "done" =>
       oresp.status = LadderStatus(oreq.method, verif \in {"passed", "skipped"},
                                   oreq.raw.json)
  /\ \A p \in Procs :
       /\ sh[p].parsed => sh[p].verif = "accepted"
       /\ sh[p].pc = "done" =>
            sh[p].resp.status = LadderStatus(sh[p].req.method, sh[p].verif = "accepted",
                                             sh[p].req.raw.json)

\* C5: the order handler skips signature verification only when the request's
\* token is non-empty and equals the configured DEBUG_TOKEN; with DEBUG_TOKEN
\* unset or empty no token, absent and empty ones included, skips it.
C5_BypassNeedsOperatorSecret ==
  /\ verif = "skipped" => TokenIsOperatorSecret
  /\ env.DEBUG_TOKEN \in {Undefined, ""} => verif # "skipped"
  /\ (opc \notin {"idle", "verify"} /\ oreq.method = "POST" /\ TokenIsOperatorSecret)
       => verif = "skipped"

\* A request with the operators' token is processed without a valid signature.
C5_Witness ==
  /\ opc = "done"
  /\ verif = "skipped"
  /\ ~ShopifySignatureValid
  /\ oresp.status = 200

(***************************************************************************)
(* Properties of the order submission                                      *)
(***************************************************************************)
\* The positions in the call log of the calls of an operation.
CallsOf(op) == {i \in 1..Len(calls) : calls[i].op = op}

\* The text holds the phrase, letter case aside.
HoldsPhrase(text, phrase) ==
  \E i \in 0..(Len(text) - Len(phrase)) :
     \A j \in 1..Len(phrase) : LowerChar(text[i + j]) = phrase[j]

\* The draft creation was attempted and did not yield a draft: the request
\* failed, the status was no success, or the answer names no order id.
DraftFailed ==
  \/ draft.net = "throw"
  \/ draft.net = "ok" /\ (~draft.httpOk \/ draft.payload.id = 0)

\* The provider refused the draft with the duplicate-external-id signal: the
\* error code OR-13, or the phrase in its message.
DuplicateSignal ==
  /\ draft.net = "ok"
  /\ ~draft.httpOk
  /\ \/ draft.payload.api_error_code = "OR-13"
     \/ HoldsPhrase(IF draft.payload.message # <<>> THEN draft.payload.message
                    ELSE draft.payload.result,
                    <<"e","x","t","e","r","n","a","l"," ","i","d"," ",
                      "a","l","r","e","a","d","y"," ","e","x","i","s","t","s">>)

\* C6: when the draft creation fails and the provider's answer carries the
\* duplicate-external-id signal, the order handler answers 200 with ok:true and
\* already_exists:true, issues no confirm call and reports no error.
C6_DuplicateIsSuccess ==
  (opc = "done" /\ DuplicateSignal) =>
     /\ oresp.status = 200
     /\ oresp.ok
     /\ "already_exists" \in oresp.fields
     /\ "error" \notin oresp.fields
     /\ CallsOf("orders.confirm") = {}

\* A duplicate told by the message alone, under another error code.
C6_Witness ==
  /\ opc = "done"
  /\ DuplicateSignal
  /\ draft.payload.api_error_code # "OR-13"
  /\ oresp.kind = "already_exists"

\* C7: within one order request the draft-create call is issued at most once
\* and with confirm=false; the confirm call is issued at most once, only after
\* a draft creation that succeeded and returned an order id, and it targets
\* that id.
C7_TwoPhase ==
  /\ Cardinality(CallsOf("orders.create")) <= 1
  /\ Cardinality(CallsOf("orders.confirm")) <= 1
  /\ \A i \in CallsOf("orders.create") : calls[i].target.confirm = FALSE
  /\ \A j \in CallsOf("orders.confirm") :
        /\ \E i \in CallsOf("orders.create") : i < j /\ calls[i].ok = "ok"
        /\ ~DraftFailed
        /\ draft.payload.id # 0
        /\ calls[j].target = draft.payload.id

\* A draft was created and its confirmation was issued.
C7_Witness ==
  /\ opc = "done"
  /\ CallsOf("orders.create") # {}
  /\ CallsOf("orders.confirm") # {}

\* The confirm call was issued and failed.
ConfirmFailed == \E j \in CallsOf("orders.confirm") : calls[j].ok # "ok"

\* C8: a failure of the draft creation other than the duplicate signal (a
\* status that is no success, an answer without order id, a network error) and
\* a failure of the confirm call make the order handler answer 200 with
\* {ok:false, error, missing}; no exception escapes the handler, and no confirm
\* call follows a failed draft creation.
C8_FailuresAreReported ==
  /\ (opc = "done" /\ ((DraftFailed /\ ~DuplicateSignal) \/ ConfirmFailed)) =>
        /\ oresp.status = 200
        /\ ~oresp.ok
        /\ {"ok", "error", "missing"} \subseteq oresp.fields
        /\ oresp.missing = missing
  /\ (opc = "done" /\ draft.net # "none") => oresp.status = 200
  /\ DraftFailed => CallsOf("orders.confirm") = {}

\* A confirmation that failed after a draft was created.
C8_Witness ==
  /\ opc = "done"
  /\ ~DraftFailed
  /\ ConfirmFailed
  /\ oresp.kind = "error"

\* C9: the external id sent to the provider is the fixed prefix followed by
\* the order number, or by the numeric id when the order has no number: every
\* delivery of the same order event sends the same external id, whatever the
\* line items that resolved in each.
C9_ExternalIdOfIdentifier ==
  /\ \A a \in sent :
        a.external_id = <<"N","B","H","L">> \o toString(IF a.order_number # 0
                                                        THEN a.order_number ELSE a.id)
  /\ \A a, b \in sent :
        (a.id = b.id /\ a.order_number = b.order_number) => a.external_id = b.external_id

\* Two deliveries of one order event, one with every line item resolved and
\* one with some line item missing.
C9_Witness ==
  /\ deliveries = 2
  /\ \E a, b \in sent :
        /\ a.id = b.id
        /\ a.order_number = b.order_number
        /\ a.partial # b.partial

\* C10: if no line item of an order resolves, the order handler issues no
\* order-creation call and answers 200 with ok:false and the list of what is
\* missing: one entry per line item, the SKU of each that has one.
C10_NoItemsNoOrder ==
  (opc = "done" /\ oreq.raw.json /\ idx > Len(order.line_items) /\ items = <<>>) =>
     /\ CallsOf("orders.create") = {}
     /\ oresp.status = 200
     /\ ~oresp.ok
     /\ "missing" \in oresp.fields
     /\ Len(oresp.missing) = Len(order.line_items)
     /\ \A i \in 1..Len(order.line_items) :
           order.line_items[i].sku # <<>> => oresp.missing[i] = order.line_items[i].sku

\* Two line items, one that failed while its artwork was resolved, and none left.
C10_Witness ==
  /\ opc = "done"
  /\ Len(order.line_items) = 2
  /\ items = <<>>
  /\ calls # <<>>
  /\ oresp.kind = "no_valid_items"

(***************************************************************************)
(* Properties of line-item resolution                                      *)
(***************************************************************************)
\* The elements of seq at the positions in R, in order.
Sub(seq, R) ==
  LET F[i \in 0..Len(seq)] ==
        IF i = 0 THEN <<>>
        ELSE IF i \in R THEN Append(F[i - 1], seq[i]) ELSE F[i - 1]
  IN  F[Len(seq)]

\* The catalog variant of a line item's SKU, 0 without one.
CatalogVariant(li) ==
  LET d == parseStructuredSku(li.sku)
  IN  IF d.ok THEN variantLookup(d.variantKey) ELSE 0

\* The line items split into resolved and unresolved ones: `items` holds the
\* catalog variants of the former and `missing` names the latter, both in the
\* order of the line items.
ItemsAndMissingPartition ==
  LET lis == order.line_items
      n == Len(lis)
  IN  \E R \in SUBSET (1..n) :
        /\ \A i \in R : CatalogVariant(lis[i]) # 0
        /\ [k \in 1..Len(items) |-> items[k].variant_id]
             = Sub([i \in 1..n |-> CatalogVariant(lis[i])], R)
        /\ missing = Sub([i \in 1..n |-> IF lis[i].sku # <<>> THEN lis[i].sku
                                         ELSE lis[i].title], (1..n) \ R)

\* C11: if at least one line item resolves the order is submitted with exactly
\* the resolved items, even when other line items failed, and every 200
\* response of the order handler (confirmed, already exists, upstream failure,
\* no valid items) carries the unresolved line items under `missing`.
C11_PartialSuccess ==
  /\ \A i \in CallsOf("orders.create") :
        /\ items # <<>>
        /\ calls[i].target.items = items
        /\ ItemsAndMissingPartition
  /\ (opc = "done" /\ oresp.status = 200) =>
        /\ "missing" \in oresp.fields
        /\ oresp.missing = missing
        /\ ItemsAndMissingPartition
        /\ items # <<>> => CallsOf("orders.create") # {}

\* An order of one resolved and one unresolved line item is submitted.
C11_Witness ==
  /\ opc = "done"
  /\ CallsOf("orders.create") # {}
  /\ Len(items) = 1
  /\ Len(missing) = 1
  /\ oresp.kind = "confirmed"

\* No call failed: none threw, none but a probe was refused (a probe that is
\* refused tells that the file is absent).
AllCallsSucceeded ==
  \A i \in 1..Len(calls) :
     calls[i].ok # "throw" /\ (calls[i].ok = "fail" => calls[i].op = "HEAD")

\* The SKUs of the order's line items.
OrderSkus == [i \in 1..Len(order.line_items) |-> order.line_items[i].sku]

\* The order was handled to the end and every call made for it succeeded.
HandledWithoutFailure ==
  /\ opc = "done"
  /\ oresp.status = 200
  /\ idx > Len(order.line_items)
  /\ AllCallsSucceeded
  /\ \A i \in 1..Len(order.line_items) : order.line_items[i].properties = <<>>

\* The payload sent to the provider holds one item, and the response lists
\* the SKU 99_UNKNOWN_RED_L, and nothing else, as missing.
OneItemOneMissing ==
  /\ Cardinality(CallsOf("orders.create")) = 1
  /\ \A i \in CallsOf("orders.create") : Len(calls[i].target.items) = 1
  /\ oresp.missing = << <<"9","9","_","U","N","K","N","O","W","N","_","R","E","D","_","L">> >>

\* C12 as stated: for the order of the line items 71_BC3001_WHITE_M and
\* 99_UNKNOWN_RED_L, with all outbound calls succeeding, the payload sent to
\* the provider holds exactly one item, the one for 71_BC3001_WHITE_M, and the
\* response lists 99_UNKNOWN_RED_L under `missing`.
C12_AsStated ==
  (HandledWithoutFailure
   /\ OrderSkus = << <<"7","1","_","B","C","3","0","0","1","_","W","H","I","T","E","_","M">>,
                     <<"9","9","_","U","N","K","N","O","W","N","_","R","E","D","_","L">> >>)
  => OneItemOneMissing

\* C12: for the order of the line items 71_BC3001_WHT_M (the catalog's key for
\* the white shirt, no personalization property) and 99_UNKNOWN_RED_L, with all
\* outbound calls succeeding, the payload sent to the provider holds exactly
\* one item, of variant 24353 for 71_BC3001_WHT_M, and the response lists
\* 99_UNKNOWN_RED_L under `missing`; with the colour spelled WHITE neither line
\* item resolves, no order is sent and both SKUs are listed as missing.
C12_CatalogKeyScenario ==
  /\ (HandledWithoutFailure
      /\ OrderSkus = << <<"7","1","_","B","C","3","0","0","1","_","W","H","T","_","M">>,
                        <<"9","9","_","U","N","K","N","O","W","N","_","R","E","D","_","L">> >>)
     => /\ OneItemOneMissing
        /\ \A i \in CallsOf("orders.create") :
              /\ calls[i].target.items[1].variant_id = 24353
              /\ calls[i].target.items[1].quantity = order.line_items[1].quantity
  /\ (HandledWithoutFailure
      /\ OrderSkus = << <<"7","1","_","B","C","3","0","0","1","_","W","H","I","T","E","_","M">>,
                        <<"9","9","_","U","N","K","N","O","W","N","_","R","E","D","_","L">> >>)
     => /\ CallsOf("orders.create") = {}
        /\ ~oresp.ok
        /\ oresp.missing = OrderSkus

\* The scenario with the catalog's key, submitted and confirmed.
C12_Witness ==
  /\ HandledWithoutFailure
  /\ OrderSkus = << <<"7","1","_","B","C","3","0","0","1","_","W","H","T","_","M">>,
                    <<"9","9","_","U","N","K","N","O","W","N","_","R","E","D","_","L">> >>
  /\ oresp.kind = "confirmed"

\* The line item decodes to a variant key that the catalog does not hold.
Unmapped(li) ==
  LET d == parseStructuredSku(li.sku)
  IN  d.ok /\ \A e \in productColorSizeToVariant : e[1] # d.variantKey

\* C13: a line item whose variant key is absent from the catalog is never
\* included in the order under a substituted or default variant id: the step
\* that handles it adds its SKU to `missing`, adds nothing to the items, and
\* issues no product lookup, artwork probe or file upload.
C13_UnmappedIsHardFailure ==
  [][(opc = "loop" /\ idx <= Len(order.line_items) /\ idx' = idx + 1
      /\ Unmapped(order.line_items[idx]))
     => (/\ items' = items
         /\ calls' = calls
         /\ missing' = Append(missing, order.line_items[idx].sku))]_vars

\* An unmapped line item was passed over and the next one resolved.
C13_Witness ==
  /\ opc = "done"
  /\ Len(order.line_items) = 2
  /\ Unmapped(order.line_items[1])
  /\ missing = <<order.line_items[1].sku>>
  /\ Len(items) = 1
  /\ CallsOf("orders.create") # {}

(***************************************************************************)
(* Properties of the SKU decoder                                           *)
(***************************************************************************)
\* The segments of the trimmed SKU: the blanks before the first segment and
\* after the last one are gone.
TrimmedSegments(g) ==
  [i \in 1..Len(g) |->
     IF i = 1 /\ i = Len(g) THEN trim(g[i])
     ELSE IF i = 1 THEN trimStart(g[i])
     ELSE IF i = Len(g) THEN trimEnd(g[i])
     ELSE g[i]]

\* Segments rejoined with `_`.
Rejoined(g) ==
  LET F[i \in 0..Len(g)] ==
        IF i = 0 THEN <<>>
        ELSE IF i = 1 THEN g[1]
        ELSE F[i - 1] \o <<"_">> \o g[i]
  IN  F[Len(g)]

\* A character that segment normalization keeps: A-Z and 0-9.
KeptChar(c) == c \in Digits \/ \E i \in 1..Len(UpperCase) : UpperCase[i] = c

\* Segment normalization as the specification words it: upper-case, then drop
\* every character outside [A-Z0-9].
Normalized(x) == SelectSeq([i \in 1..Len(x) |-> UpperChar(x[i])], KeptChar)

\* The variant key of the segments t: product code, colour and size, each
\* normalized, joined by `_`.
VariantKeyOf(t) ==
  Normalized(t[2]) \o <<"_">> \o Normalized(Rejoined(SubSeq(t, 3, Len(t) - 1)))
  \o <<"_">> \o Normalized(t[Len(t)])

\* The decoder fails exactly on fewer than 4 segments or an empty first
\* segment, and otherwise returns the variant key of the segments.
DecodesByMiddleJoin ==
  LET t == TrimmedSegments(dec.segments)
  IN  /\ dec.result.ok <=> (Len(t) >= 4 /\ t[1] # <<>>)
      /\ dec.result.ok => dec.result.variantKey = VariantKeyOf(t)

\* C14 as stated: the decoder, applied to the trimmed SKU split on `_`, fails
\* exactly when there are fewer than 4 segments or the first segment is empty;
\* from 4 segments on it takes the first segment verbatim as template
\* reference and returns the variant key normalize(productCode)_
\* normalize(color)_normalize(size), the colour being the segments between the
\* second and the last rejoined with `_`.
C14_AsStated ==
  dec.stage = "decoded" =>
     /\ DecodesByMiddleJoin
     /\ dec.result.ok => dec.result.templateRef = TrimmedSegments(dec.segments)[1]

\* C14: the decoder, applied to the trimmed SKU split on `_`, fails exactly
\* when there are fewer than 4 segments or the first segment is empty; from 4
\* segments on it takes the first segment, trimmed of the blanks that end it
\* and otherwise unchanged, as template reference and returns the variant key
\* normalize(productCode)_normalize(color)_normalize(size), the colour being
\* the segments between the second and the last rejoined with `_`.
C14_MiddleJoinDecoding ==
  dec.stage = "decoded" =>
     /\ DecodesByMiddleJoin
     /\ dec.result.ok =>
          dec.result.templateRef = trimEnd(TrimmedSegments(dec.segments)[1])

\* A SKU of five segments, its colour of two, decoded.
C14_Witness ==
  /\ dec.stage = "decoded"
  /\ dec.result.ok
  /\ Len(dec.segments) = 5
  /\ dec.segments[3] # <<>>
  /\ dec.segments[4] # <<>>

\* C15 as stated: SKU decoding either fails or yields a value in which
\* template reference, product code, color and size are all non-empty.
C15_FullyPopulated ==
  dec.stage = "decoded" /\ dec.result.ok =>
     LET t == TrimmedSegments(dec.segments)
     IN  /\ dec.result.templateRef # <<>>
         /\ t[2] # <<>>
         /\ Rejoined(SubSeq(t, 3, Len(t) - 1)) # <<>>
         /\ t[Len(t)] # <<>>

\* The SKU whose segments are the normalized product code, colour and size of
\* the segments t, after the same template reference.
NormalizedSku(t) ==
  t[1] \o <<"_">> \o normalize(t[2]) \o <<"_">>
  \o normalize(Rejoined(SubSeq(t, 3, Len(t) - 1))) \o <<"_">>
  \o normalize(t[Len(t)])

\* C16: segment normalization is idempotent, normalize(normalize(x)) =
\* normalize(x) for the whole SKU and for each of its segments, and the
\* variant key decoded from already-normalized segments equals the key decoded
\* from the raw segments.
C16_NormalizeIdempotent ==
  dec.stage = "decoded" =>
     /\ normalize(normalize(dec.sku)) = normalize(dec.sku)
     /\ \A i \in 1..Len(dec.segments) :
          normalize(normalize(dec.segments[i])) = normalize(dec.segments[i])
     /\ dec.result.ok =>
          parseStructuredSku(NormalizedSku(TrimmedSegments(dec.segments)))
            = dec.result

\* A decoded SKU whose segments are changed by normalization: blanks, lower
\* case and a hyphen.
C16_Witness ==
  /\ dec.stage = "decoded"
  /\ dec.result.ok
  /\ dec.segments[2] = <<" ", "m", " ">>
  /\ dec.segments[Len(dec.segments)] = <<"x", "-", "l">>
  /\ normalize(dec.sku) # dec.sku

(***************************************************************************)
(* Properties of artwork registration and the upload cache                 *)
(***************************************************************************)
\* C17 as stated: at most one file-registration call is made per source URL;
\* once a URL has been registered, no further registration call is issued
\* for it.
C17_OneRegistrationPerUrl ==
  \A i, j \in CallsOf("files.create") :
     i < j /\ calls[i].ok = "ok" => calls[j].target # calls[i].target

\* The provider's answers to the upload of the URL that failed.
FailedUploads(url) == {i \in 1..Len(ucalls) : ucalls[i].url = url /\ ~ucalls[i].ok}

\* C18: when the provider's file registration fails, uploadOrReuse raises an
\* error and leaves the cache exactly as it was, and a later call for the same
\* URL, the cache still holding no entry for it, attempts the upload again.
C18_FailureLeavesCache ==
  [][\A p \in CacheProcs :
       /\ (up[p].pc = "fetching" /\ up'[p].pc = "done" /\ ~ucalls'[Len(ucalls')].ok
             => up'[p].outcome = "threw" /\ cacheFile' = cacheFile)
       /\ (up[p].pc # "fetching" /\ up'[p] # up[p]
           /\ FailedUploads(up'[p].url) # {} /\ cacheFile[up'[p].url] = 0
             => up'[p].pc = "fetching")]_vars

\* A call failed for a URL, and a later call for that URL is at the provider
\* again, the cache holding an entry of another URL throughout.
C18_Witness ==
  \E p \in CacheProcs :
     /\ up[p].pc = "fetching"
     /\ FailedUploads(up[p].url) # {}
     /\ \E u \in CacheUrls : cacheFile[u] # 0

\* The file ids the provider returned for the URL.
ReturnedIds(url) == {ucalls[i].id : i \in {k \in 1..Len(ucalls) : ucalls[k].url = url /\ ucalls[k].ok}}

\* C19 as stated: a cache entry once stored is never removed, and after all
\* calls have finished every URL whose upload succeeded is mapped to a file id
\* the provider returned for that URL.
C19_EntriesSurvive ==
  (\A p \in CacheProcs : up[p].pc # "fetching") =>
     \A u \in CacheUrls : ReturnedIds(u) # {} => cacheFile[u] \in ReturnedIds(u)

(***************************************************************************)
(* Properties of the shipment handler's stages                             *)
(***************************************************************************)
\* The calls process p made to the order source with the operation.
ShopCallsOf(p, op) == {i \in 1..Len(scalls) : scalls[i].p = p /\ scalls[i].op = op}

\* The event type names a stage in progress, letter case aside.
NamesStage(ev) ==
  \/ HoldsPhrase(ev, EvInProcess)
  \/ HoldsPhrase(ev, EvPackaged)

\* Process p serves a verified event that names a stage in progress and whose
\* order was resolved and obtained from the order source.
StageEventResolved(p) ==
  /\ sh[p].verif = "accepted"
  /\ sh[p].parsed
  /\ NamesStage(sh[p].event.event)
  /\ sh[p].orderId # 0
  /\ \E i \in ShopCallsOf(p, "orders.get") : scalls[i].outcome = "ok"

\* C20: for a verified shipment event whose type matches order_in_process or
\* order_packaged, letter case aside, and whose order identity resolves to an
\* order of the order source, the handler writes the status in_progress to
\* that order, once and to no other, and creates no fulfillment record,
\* whatever shipments the event carries.
C20_StageMarksInProgress ==
  \A p \in Procs :
     StageEventResolved(p) =>
        /\ ShopCallsOf(p, "fulfillments.create") = {}
        /\ \A i \in ShopIds : shop[i].fulfillments = InitialShop[i].fulfillments
        /\ \A i \in ShopCallsOf(p, "orders.mark") :
              scalls[i].target = [id |-> sh[p].orderId, status |-> "in_progress"]
        /\ sh[p].pc = "done" =>
              /\ Cardinality(ShopCallsOf(p, "orders.mark")) = 1
              /\ \A i \in ShopCallsOf(p, "orders.mark") :
                    scalls[i].outcome = "ok" => shop[sh[p].orderId].status = "in_progress"

\* A stage event written in capitals and carrying a shipment was handled: the
\* status write was accepted.
C20_Witness ==
  \E p \in Procs :
     /\ StageEventResolved(p)
     /\ sh[p].pc = "done"
     /\ sh[p].event.event = EvPackagedCaps
     /\ sh[p].event.shipments # <<>>
     /\ shop[sh[p].orderId].status = "in_progress"

(***************************************************************************)
(* Properties of the shipped and fulfilled events                          *)
(***************************************************************************)
\* The calls process p made with the operation, in the order it made them.
ShopCallSeq(p, op) ==
  LET F[i \in 0..Len(scalls)] ==
        IF i = 0 THEN <<>>
        ELSE IF scalls[i].p = p /\ scalls[i].op = op THEN Append(F[i - 1], scalls[i])
        ELSE F[i - 1]
  IN  F[Len(scalls)]

\* The event type names a shipment or a completed fulfillment, letter case
\* aside, and no stage in progress.
NamesShipped(ev) ==
  /\ ~NamesStage(ev)
  /\ \/ HoldsPhrase(ev, EvShipped)
     \/ HoldsPhrase(ev, toLowerCase(EvFulfilled))

\* Process p serves a verified event that names a shipment and whose order was
\* resolved and obtained from the order source.
ShippedEventResolved(p) ==
  /\ sh[p].verif = "accepted"
  /\ sh[p].parsed
  /\ NamesShipped(sh[p].event.event)
  /\ sh[p].orderId # 0
  /\ \E i \in ShopCallsOf(p, "orders.get") : scalls[i].outcome = "ok"

\* The ids of the line items with something left to fulfil.
HasQuantityLeft(li) == li.fulfillable_quantity > 0
LeftToFulfil(o) ==
  LET left == SelectSeq(o.line_items, HasQuantityLeft)
  IN  [i \in 1..Len(left) |-> left[i].id]

\* The fulfillment request that shipment s of an event for order id is to
\* bring about.
RequestFor(id, s) ==
  [id |-> id, line_items |-> LeftToFulfil(InitialShop[id]),
   tracking |-> [number |-> s.tracking_number, url |-> s.tracking_url,
                 company |-> IF s.carrier = <<>> THEN <<"C","a","r","r","i","e","r">>
                             ELSE s.carrier]]

\* C21: for a verified package_shipped or order_fulfilled event on an order
\* that has fulfillable line items, the handler issues exactly one
\* fulfillment-creation request per shipment of the event, in shipment order,
\* each referencing all fulfillable line items and carrying that shipment's
\* tracking number, URL and carrier (the carrier defaulting to a generic
\* label), stops at a request the order source refuses, and after the last
\* one writes the status fulfilled; with external id shopify-4021 and one
\* shipment, order 4021 receives exactly one fulfillment record.
C21_OneFulfillmentPerShipment ==
  \A p \in Procs :
     ShippedEventResolved(p) /\ LeftToFulfil(InitialShop[sh[p].orderId]) # <<>> =>
        LET created == ShopCallSeq(p, "fulfillments.create")
            marks == ShopCallSeq(p, "orders.mark")
            shipments == sh[p].event.shipments
            id == sh[p].orderId
        IN  /\ Len(created) <= Len(shipments)
            /\ \A i \in 1..Len(created) :
                  /\ created[i].target = RequestFor(id, shipments[i])
                  /\ i < Len(created) => created[i].outcome = "ok"
            /\ Len(marks) <= 1
            /\ \A i \in 1..Len(marks) :
                  /\ marks[i].target = [id |-> id, status |-> "fulfilled"]
                  /\ Len(created) = Len(shipments)
                  /\ \A j \in 1..Len(created) : created[j].outcome = "ok"
            /\ sh[p].pc = "done" =>
                  \/ \E i \in 1..Len(created) : created[i].outcome # "ok"
                  \/ Len(created) = Len(shipments) /\ Len(marks) = 1
            /\ Len(shop[id].fulfillments) =
                  Cardinality({i \in 1..Len(created) : created[i].outcome = "ok"})
            /\ (sh[p].pc = "done" /\ sh[p].resp.ok /\ Len(shipments) = 1
                /\ sh[p].event.ext = <<"s","h","o","p","i","f","y","-","4","0","2","1">>) =>
                  /\ id = 4021
                  /\ Len(shop[4021].fulfillments) = 1
                  /\ shop[4021].fulfillments[1].line_items = <<11, 13>>

\* An event of two shipments, the second without a carrier, was handled for
\* order 4021: two fulfillment records and the status fulfilled.
C21_Witness ==
  \E p \in Procs :
     /\ ShippedEventResolved(p)
     /\ sh[p].pc = "done"
     /\ sh[p].resp.ok
     /\ Len(sh[p].event.shipments) = 2
     /\ sh[p].event.shipments[2].carrier = <<>>
     /\ Len(shop[4021].fulfillments) = 2
     /\ shop[4021].status = "fulfilled"

\* C22: a verified package_shipped or order_fulfilled event that carries zero
\* shipments still makes the handler write the status fulfilled to the
\* resolved order, once, without creating any fulfillment record.
C22_NoShipmentsStillFulfilled ==
  \A p \in Procs :
     ShippedEventResolved(p) /\ sh[p].event.shipments = <<>> =>
        /\ ShopCallsOf(p, "fulfillments.create") = {}
        /\ \A i \in ShopIds : shop[i].fulfillments = InitialShop[i].fulfillments
        /\ \A i \in ShopCallsOf(p, "orders.mark") :
              scalls[i].target = [id |-> sh[p].orderId, status |-> "fulfilled"]
        /\ sh[p].pc = "done" =>
              /\ Cardinality(ShopCallsOf(p, "orders.mark")) = 1
              /\ \A i \in ShopCallsOf(p, "orders.mark") :
                    scalls[i].outcome = "ok" => shop[sh[p].orderId].status = "fulfilled"

\* An Order_Fulfilled event without shipments was handled for order 4021, which
\* has line items left to fulfil: its status is fulfilled, nothing was created.
C22_Witness ==
  \E p \in Procs :
     /\ ShippedEventResolved(p)
     /\ sh[p].event.shipments = <<>>
     /\ sh[p].event.event = EvFulfilled
     /\ sh[p].pc = "done"
     /\ sh[p].orderId = 4021
     /\ sh[p].resp.kind = "fulfillments"
     /\ shop[4021].status = "fulfilled"
     /\ shop[4021].fulfillments = <<>>

(***************************************************************************)
(* Properties of event classification and order resolution                 *)
(***************************************************************************)
\* Process p serves a verified event, its body parsed.
EventAccepted(p) ==
  /\ sh[p].verif = "accepted"
  /\ sh[p].parsed
  /\ sh[p].req.raw.json

\* The calls of process p that write to the order source.
ShopWrites(p) == ShopCallsOf(p, "orders.mark") \cup ShopCallsOf(p, "fulfillments.create")

\* The event type is none of order_in_process, order_packaged, package_shipped,
\* order_fulfilled.
NamesOther(ev) ==
  /\ ~NamesStage(ev)
  /\ ~HoldsPhrase(ev, EvShipped)
  /\ ~HoldsPhrase(ev, toLowerCase(EvFulfilled))

\* C23 as stated: a verified shipment event whose type is none of
\* order_in_process, order_packaged, package_shipped, order_fulfilled is
\* acknowledged with 200 and causes no write to the order source: no
\* fulfillment record is created and no status is changed.
C23_OtherEventsAcknowledged ==
  \A p \in Procs :
     EventAccepted(p) /\ NamesOther(sh[p].event.event) =>
        /\ ShopWrites(p) = {}
        /\ shop = InitialShop
        /\ sh[p].pc = "done" => sh[p].resp.status = 200

\* The digits of a token made of the prefix, letter case aside, and digits
\* only; <<>> for any other token.
DigitsAfter(ext, prefix) ==
  IF /\ Len(ext) > Len(prefix)
     /\ \A j \in 1..Len(prefix) : LowerChar(ext[j]) = prefix[j]
     /\ \A j \in (Len(prefix) + 1)..Len(ext) : ext[j] \in Digits
  THEN [j \in 1..(Len(ext) - Len(prefix)) |-> ext[j + Len(prefix)]]
  ELSE <<>>

DirectDigits(ext) == DigitsAfter(ext, <<"s","h","o","p","i","f","y","-">>)
AlternateDigits(ext) == DigitsAfter(ext, <<"n","b","h","l">>)

\* An order of the order source goes by the name.
Named(name) == \E i \in ShopIds : InitialShop[i].name = name

\* Process p is past the resolution of the order identity.
Resolved(p) == EventAccepted(p) /\ sh[p].pc \notin {"resolve", "resolveAlt"}

C25_NothingLeftIsNoOp ==
  \A p \in Procs :
     ShippedEventResolved(p) =>
        /\ sh[p].fulfillable = LeftToFulfil(InitialShop[sh[p].orderId])
        /\ LeftToFulfil(InitialShop[sh[p].orderId]) = <<>> =>
              /\ ShopWrites(p) = {}
              /\ shop = InitialShop

(***************************************************************************)
(* Properties of the personalization overlay                               *)
(***************************************************************************)
\* The calls the handler issues in the step.
NewCalls == SubSeq(calls', Len(calls) + 1, Len(calls'))

\* C26: for a line item carrying a personalization number whose number
\* artwork exists, if fetching the base image, fetching the number image, or
\* uploading the composite fails or yields no public URL, the line item is
\* excluded from the order and recorded in `missing`, and the un-personalized
\* base artwork is never registered as its default file; if the number artwork
\* does not exist or no number is present, the base artwork URL is used
\* unmodified.
C26_OverlayFailureFailsItem ==
  [][(opc = "loop" /\ idx' = idx + 1) =>
       LET li == order.line_items[idx]
           new == NewCalls
           base == artUrlFromHandle(productHandle(li.product_id))
           creates == {i \in 1..Len(new) : new[i].op = "files.create"}
           first == CHOOSE i \in creates : \A j \in creates : i <= j
           exists == \E i \in 1..Len(new) :
                        new[i].op = "HEAD" /\ new[i].target.kind = "number" /\ new[i].ok = "ok"
           overlayFailed == \E i \in 1..Len(new) :
                               new[i].op \in {"GET", "composite.upload"} /\ new[i].ok # "ok"
       IN  /\ exists => extractCustomNumberFromLineItem(li) # <<>>
           /\ (exists /\ overlayFailed) =>
                 /\ creates = {}
                 /\ items' = items
                 /\ missing' = Append(missing, missingEntry(li))
           /\ (exists /\ creates # {}) =>
                 /\ new[first].target.kind = "composite"
                 /\ new[first].target # base
           /\ (~exists /\ creates # {}) => new[first].target = base
           /\ items' # items =>
                 /\ creates # {}
                 /\ items'[Len(items')].files[1].id = new[first].target]_vars

\* A numbered line item whose composite was uploaded without a public URL
\* coming back: the item is missing and nothing was registered for it.
C26_Witness ==
  /\ \E i \in 1..Len(calls) : calls[i].op = "composite.upload" /\ calls[i].ok = "no_url"
  /\ \E i \in 1..Len(calls) : calls[i].op = "GET" /\ calls[i].target.kind = "number"
  /\ CallsOf("files.create") = {}
  /\ missing = <<LiNumbered.sku>>
  /\ idx = 2

(***************************************************************************)
(* Properties of failures and of sequences of shipment events              *)
(***************************************************************************)
\* The calls of process p that the order source did not answer with success.
FailedShopCalls(p) ==
  {i \in 1..Len(scalls) : scalls[i].p = p /\ scalls[i].outcome # "ok"}

\* C27 as stated: in the shipment handler every failed outbound call to the
\* order source (lookup by name, order fetch, fulfillment creation, status
\* update) is surfaced as an HTTP 200 response whose body reports ok:false; it
\* is never retried within the request, never escapes as an unhandled
\* exception, and never ends in a response reporting ok:true.
C27_FailedCallsSurface ==
  \A p \in Procs :
     EventAccepted(p) =>
        /\ \A i \in FailedShopCalls(p) :
              \A j \in (i + 1)..Len(scalls) :
                 scalls[j].p = p =>
                    ~(scalls[j].op = scalls[i].op /\ scalls[j].target = scalls[i].target)
        /\ (sh[p].pc = "done" /\ FailedShopCalls(p) # {}) =>
              /\ sh[p].resp # Uncaught
              /\ sh[p].resp.status = 200
              /\ ~sh[p].resp.ok

\* The rank of a status along Pending, InProgress, Fulfilled.
StatusRank(status) ==
  CASE status = "in_progress" -> 1
    [] status = "fulfilled" -> 2
    [] OTHER -> 0

\* C28 as stated: for any sequence of verified shipment events delivered for
\* one order, the status the handler writes never moves backward along
\* Pending, InProgress, Fulfilled: once fulfilled has been written for an
\* order, a later order_in_process or order_packaged event does not write
\* in_progress to it.
C28_StatusNeverBackward ==
  \A i, j \in {k \in 1..Len(scalls) : scalls[k].op = "orders.mark"} :
     (i < j /\ scalls[i].outcome = "ok" /\ scalls[i].target.id = scalls[j].target.id) =>
        StatusRank(scalls[i].target.status) <= StatusRank(scalls[j].target.status)

\* C29 as stated: every inbound request to either webhook handler ends with
\* exactly one HTTP response: for every combination of configuration (an unset
\* secret included), headers, body and outcomes of outbound calls, the handler
\* sends a response and never terminates by an uncaught exception.
C29_AlwaysResponds ==
  /\ opc = "done" => oresp.kind # "uncaught" /\ oresp.status \in {200, 400, 401, 405}
  /\ \A p \in Procs :
        sh[p].pc = "done" =>
           sh[p].resp.kind # "uncaught" /\ sh[p].resp.status \in {200, 400, 401, 405}

(***************************************************************************)
(* Properties of the personalization number                                *)
(***************************************************************************)
\* The property is a number field: its name is one of the configured keys or,
\* with no keys configured, matches the name heuristic.
IsNumberField(prop, keys) ==
  LET name == trim(prop.name)
  IN  /\ name # <<>>
      /\ IF keys # <<>>
         THEN \E k \in 1..Len(keys) :
                 /\ Len(keys[k]) = Len(name)
                 /\ \A j \in 1..Len(name) : LowerChar(name[j]) = keys[k][j]
         ELSE \E w \in {<<"n","u","m","b","e","r">>, <<"j","e","r","s","e","y">>,
                        <<"s","h","i","r","t">>, <<"c","u","s","t","o","m">>} :
                 HoldsPhrase(name, w)

\* The trimmed value is a non-empty digit string.
DigitValued(prop) ==
  LET v == trim(prop.value)
  IN  v # <<>> /\ \A j \in 1..Len(v) : v[j] \in Digits

\* The trimmed value is none-like.
NoneValued(prop) ==
  \E w \in {<<"n","o","n","e">>, <<"n","o">>, <<"n","/","a">>, <<"n","a">>} :
     LET v == trim(prop.value)
     IN  Len(v) = Len(w) /\ \A j \in 1..Len(w) : LowerChar(v[j]) = w[j]

\* C30 as stated: extractCustomNumberFromLineItem returns a number only from a
\* property whose name is one of the configured number keys or, when no keys
\* are configured, matches the number-name heuristic, and whose trimmed value
\* is a non-empty digit string; a none-like value on such a field yields no
\* number; a digit-valued property whose name matches neither never yields a
\* number.
C30_NumberOnlyFromNumberField ==
  dec.stage = "extracted" =>
     LET props == dec.props
         fields == {i \in 1..Len(props) : IsNumberField(props[i], dec.keys)}
     IN  /\ dec.number # <<>> =>
              \E i \in fields : DigitValued(props[i]) /\ dec.number = trim(props[i].value)
         /\ \A i \in fields :
              (NoneValued(props[i]) /\ \A j \in fields : j < i => ~DigitValued(props[j]))
                => dec.number = <<>>

(***************************************************************************)
(* Properties of the files, the order and the count of items              *)
(***************************************************************************)
\* The placements, in the fixed order, whose existence probe in the calls
\* answered ok.
ProbedPresent(new, templateRef) ==
  LET present(pl) ==
        \E i \in 1..Len(new) :
           /\ new[i].op = "HEAD"
           /\ new[i].target = [kind |-> "placement", ref |-> templateRef, part |-> pl]
           /\ new[i].ok = "ok"
  IN  SelectSeq(<< <<"f","r","o","n","t">>, <<"b","a","c","k">>,
                   <<"s","l","e","e","v","e","_","l","e","f","t">>,
                   <<"s","l","e","e","v","e","_","r","i","g","h","t">> >>, present)

\* C31 as stated: every item of a submitted order carries exactly one file of
\* type `default`, placed first and registered successfully with the provider,
\* followed by the placement files in the fixed order front, back,
\* sleeve_left, sleeve_right restricted to the placements whose existence
\* probe succeeded; a placement whose probe reports absence is skipped with no
\* upload attempted and never causes the line item to be excluded.
C31_DefaultThenProbedPlacements ==
  [][(opc = "loop" /\ idx' = idx + 1) =>
       LET li == order.line_items[idx]
           new == NewCalls
           ref == parseStructuredSku(li.sku).templateRef
           creates == {i \in 1..Len(new) : new[i].op = "files.create"}
           first == CHOOSE i \in creates : \A j \in creates : i <= j
           absent == {i \in 1..Len(new) :
                        new[i].op = "HEAD" /\ new[i].target.kind = "placement"
                        /\ new[i].ok = "fail"}
           onlyAbsences == \A i \in 1..Len(new) : new[i].ok = "ok" \/ i \in absent
       IN  /\ items' # items =>
                LET files == items'[Len(items')].files
                    present == ProbedPresent(new, ref)
                IN  /\ files[1].type = <<"d","e","f","a","u","l","t">>
                    /\ \A k \in 2..Len(files) : files[k].type # <<"d","e","f","a","u","l","t">>
                    /\ new[first].ok = "ok" /\ new[first].target = files[1].id
                    /\ Len(files) = 1 + Len(present)
                    /\ \A k \in 1..Len(present) : files[k + 1].type = present[k]
           /\ \A i \in absent : \A j \in creates : new[j].target # new[i].target
           /\ (creates # {} /\ onlyAbsences) => items' # items]_vars

\* What a resolved line item brings into the order: its catalog variant and
\* its quantity.
Ordered(li) ==
  [variant_id |-> CatalogVariant(li),
   quantity |-> IF li.quantity = -1 THEN 1 ELSE li.quantity]

\* The items and the missing entries are those of the first n line items, each
\* in the order of the line items.
InInputOrder(its, miss, n) ==
  LET lis == order.line_items
  IN  \E R \in SUBSET (1..n) :
        /\ [k \in 1..Len(its) |-> [variant_id |-> its[k].variant_id,
                                   quantity |-> its[k].quantity]]
             = Sub([i \in 1..n |-> Ordered(lis[i])], R)
        /\ miss = Sub([i \in 1..n |-> IF lis[i].sku # <<>> THEN lis[i].sku
                                      ELSE lis[i].title], (1..n) \ R)

\* The line items the loop has gone through.
Processed == IF idx = 0 THEN 0 ELSE idx - 1

NoAddress ==
  [present |-> FALSE, first_name |-> "", last_name |-> "", address1 |-> "", city |-> "",
   province_code |-> "", province |-> "", country_code |-> "", country |-> "",
   zip |-> "", phone |-> ""]
Addresses ==
  {NoAddress}
  \cup [present : {TRUE}, first_name : {"", "Ann"}, last_name : {"", "Lee"},
        address1 : {"", "1 Main St"}, city : {"", "Rome"},
        province_code : {"NY"}, province : {"New York"}, country_code : {"US"},
        country : {"United States"}, zip : {"10001"}, phone : {"555-0100"}]
  \cup [present : {TRUE}, first_name : {"", "Ann"}, last_name : {"", "Lee"},
        address1 : {"", "1 Main St"}, city : {"", "Rome"},
        province_code : {""}, province : {"", "Ontario"}, country_code : {""},
        country : {"", "Canada"}, zip : {""}, phone : {""}]

\* order.customer: absent, or with a first name and a phone, with or without a
\* default address.
NoCustomer == [present |-> FALSE, first_name |-> "", phone |-> "", default_address |-> NoAddress]
HomeAddress ==
  [present |-> TRUE, first_name |-> "Bo", last_name |-> "Ray", address1 |-> "9 Elm Rd",
   city |-> "Bath", province_code |-> "ME", province |-> "Maine", country_code |-> "US",
   country |-> "United States", zip |-> "04530", phone |-> "555-0199"]
Customers ==
  {NoCustomer,
   [present |-> TRUE, first_name |-> "Bo", phone |-> "555-0177", default_address |-> NoAddress],
   [present |-> TRUE, first_name |-> "", phone |-> "", default_address |-> HomeAddress]}

Emails == {"", "ann@example.com"}

\* [a, b].filter(Boolean).join(" ")
fullName(first, last) ==
  IF first # "" /\ last # "" THEN first \o " " \o last
  ELSE IF first # "" THEN first
  ELSE last

\* a || b, on strings
OrElse(a, b) == IF a # "" THEN a ELSE b

\* const sa = order.shipping_address || order.customer?.default_address || {};
shippingAddressOf(o) ==
  IF o.shipping_address.present THEN o.shipping_address
  ELSE IF o.customer.present /\ o.customer.default_address.present
       THEN o.customer.default_address
  ELSE NoAddress

\* const recipient = { name: ..., address1: ..., ... }
recipient(o) ==
  LET sa == shippingAddressOf(o)
  IN  [name |-> OrElse(fullName(sa.first_name, sa.last_name),
                       OrElse(IF o.customer.present THEN o.customer.first_name ELSE "",
                              "Customer")),
       address1 |-> OrElse(sa.address1, "N/A"),
       city |-> OrElse(sa.city, "N/A"),
       state_code |-> OrElse(sa.province_code, OrElse(sa.province, "")),
       country_code |-> OrElse(sa.country_code, OrElse(sa.country, "US")),
       zip |-> OrElse(sa.zip, ""),
       email |-> OrElse(o.email, ""),
       phone |-> OrElse(sa.phone,
                        OrElse(IF o.customer.present THEN o.customer.phone ELSE "", ""))]

NoRecipient ==
  [name |-> "", address1 |-> "", city |-> "", state_code |-> "", country_code |-> "",
   zip |-> "", email |-> "", phone |-> ""]

\* The address part of an order event put to the handler.
RecipientInputs ==
  {[stage |-> "input",
    order |-> [shipping_address |-> a, customer |-> c, email |-> e],
    recipient |-> NoRecipient] : a \in Addresses, c \in Customers, e \in Emails}

InitRecipient ==
  /\ env = CHOOSE e \in Envs : e.SHOPIFY_WEBHOOK_SECRET = "shh"
  /\ OrderIdle /\ ShipIdle /\ dec \in RecipientInputs /\ CacheIdle

BuildRecipient ==
  /\ dec.stage = "input"
  /\ dec' = [dec EXCEPT !.stage = "built", !.recipient = recipient(dec.order)]
  /\ UNCHANGED <<env, ovars, svars, cacheFile, up, ucalls, uinv, events, pf>>

NextRecipient == BuildRecipient
SpecRecipient == InitRecipient /\ [][NextRecipient]_vars

\* C33 as stated: the recipient takes its address from the shipping address,
\* and from the customer's default address when the order has none, and no
\* field of the recipient is blank: name, address1 and city fall back to
\* 'Customer' and 'N/A', and state, zip, email and phone are non-empty too.
C33_NoBlankRecipientField ==
  dec.stage = "built" =>
    LET o == dec.order
        sa == IF o.shipping_address.present THEN o.shipping_address
              ELSE o.customer.default_address
        r == dec.recipient
    IN  /\ sa.address1 # "" => r.address1 = sa.address1
        /\ sa.address1 = "" => r.address1 = "N/A"
        /\ sa.city # "" => r.city = sa.city
        /\ sa.city = "" => r.city = "N/A"
        /\ r.name # ""
        /\ r.state_code # ""
        /\ r.zip # ""
        /\ r.email # ""
        /\ r.phone # ""


\* C34: when the loop over the line items ends, every line item has
\* contributed exactly one entry, to items or to missing: the two lists
\* together are as long as the list of line items, whichever step failed; and
\* while the loop runs they are as long as the part of the list processed.
C34_OneEntryPerLineItem ==
  /\ Len(items) + Len(missing) = Processed
  /\ idx > Len(order.line_items) => Len(items) + Len(missing) = Len(order.line_items)
  /\ \A i \in CallsOf("orders.create") :
        Len(calls[i].target.items) + Len(missing) = Len(order.line_items)

\* Two line items with the same SKU have both failed, at the variant lookup,
\* and the loop has ended with two entries in missing.
C34_Witness ==
  /\ opc = "done"
  /\ order.line_items = <<LiUnmapped, LiUnmapped>>
  /\ idx > Len(order.line_items)
  /\ items = <<>>
  /\ Len(missing) = 2

\* One line item was submitted and one failed at a call after its variant
\* was found.
C34_WitnessLateFailure ==
  /\ opc = "done"
  /\ Len(order.line_items) = 2
  /\ Len(items) = 1
  /\ Len(missing) = 1
  /\ CallsOf("orders.create") # {}
  /\ ~AllCallsSucceeded


(***************************************************************************)
(* From the external id of a submitted order back to the order             *)
(***************************************************************************)
\* The orders of the order source as their events present them: with their
\* order number (the digits of their name), or with the numeric id only.
SourceOrders ==
  {[id |-> 4021, order_number |-> n, line_items |-> <<LiPlain>>] : n \in {1001, 0}}
  \cup {[id |-> 4022, order_number |-> n, line_items |-> <<LiPlain>>] : n \in {1002, 0}}

NoIdentity == [stage |-> "none", order |-> NoOrder, ext |-> <<>>]

InitIdentity ==
  /\ env = CHOOSE e \in Envs : e.PRINTFUL_WEBHOOK_SECRET = "pfs"
  /\ OrderIdle /\ ShipIdle /\ CacheIdle
  /\ dec \in {[stage |-> "input", order |-> o, ext |-> <<>>] : o \in SourceOrders}

\* The order is submitted to the provider under its external id.
SubmitExternalId ==
  /\ dec.stage = "input"
  /\ dec' = [dec EXCEPT !.stage = "submitted", !.ext = draftOrder(dec.order, <<>>).external_id]
  /\ UNCHANGED <<env, ovars, svars, cacheFile, up, ucalls, uinv, events, pf>>

\* The provider reports on the order: an event that carries the external id
\* the order was submitted under.
ShipNotify(p) ==
  /\ dec.stage = "submitted"
  /\ sh[p].pc = "idle"
  /\ \E ev \in ShipmentEvents, ss \in SeqsUpTo(Shipments, 1) :
       LET e == [event |-> ev, ext |-> dec.ext, shipments |-> ss]
       IN  ShipStart(p, [method |-> "POST",
                         sig |-> <<Token("", FALSE,
                                         createHmac("sha256", "hex", "pfs", EventBody(e)))>>,
                         raw |-> EventBody(e)])
  /\ UNCHANGED <<env, ovars, shop, scalls>>
  /\ UNCHANGED xvars

NextIdentity ==
  \/ SubmitExternalId
  \/ ShipNotify(1)
  \/ ShipVerify(1)
  \/ ShipParse(1)
  \/ ShipResolve(1)
  \/ ShipResolveAlt(1)

SpecIdentity == InitIdentity /\ [][NextIdentity]_vars

\* No lookup of the invocation failed.
LookupsAnswered(p) == \A i \in ShopCallsOf(p, "orders.byName") : scalls[i].outcome = "ok"

\* C35 as stated: the external id an order is submitted under is resolved by
\* the shipment handler to that same order of the order source, when the
\* order event carried an order number and when only its numeric id was used.
C35_ExternalIdResolvesToOrder ==
  (dec.stage = "submitted" /\ Resolved(1) /\ LookupsAnswered(1))
     => sh[1].orderId = dec.order.id

\* The part of it that concerns orders submitted under their order number.
C35_OrderNumberResolves ==
  (dec.stage = "submitted" /\ dec.order.order_number # 0 /\ Resolved(1) /\ LookupsAnswered(1))
     => sh[1].orderId = dec.order.id


(***************************************************************************)
(* Deliveries of one order event to a provider that keeps its orders       *)
(***************************************************************************)
\* What the provider answers to POST /orders under the external id ext: it
\* rejects a second order under an external id it holds, with its duplicate
\* error; otherwise it creates a draft, or rejects the order for another
\* reason.  The request may also fail before any answer.
providerCreate(orders, ext) ==
  {cr \in CreateResponses : cr.net = "throw"}
  \cup IF \E o \in orders : o.external_id = ext
       THEN {cr \in CreateResponses :
               cr.net = "ok" /\ ~cr.httpOk
               /\ (cr.payload.api_error_code = "OR-13" \/ cr.payload.result = MsgDuplicate)}
       ELSE {cr \in CreateResponses :
               cr.net = "ok"
               /\ (cr.httpOk => cr.payload.id # 0)
               /\ (~cr.httpOk => cr.payload = Payload("OR-7", MsgOther, MsgOther, 0))}

\* The draft is created at a provider that keeps it.
ProviderCreateDraft ==
  /\ createDraft(providerCreate(pf, draftOrder(order, items).external_id))
  /\ pf' = IF draft'.net = "ok" /\ draft'.httpOk
           THEN pf \cup {[external_id |-> draftOrder(order, items).external_id,
                          id |-> draft'.payload.id, status |-> "draft"]}
           ELSE pf
  /\ UNCHANGED <<dec, cacheFile, up, ucalls, uinv, events>>

\* The draft is confirmed at a provider that keeps it.
ProviderConfirm ==
  /\ confirmDraft
  /\ pf' = IF calls'[Len(calls')].ok = "ok"
           THEN {IF o.id = confirmTarget(draft) THEN [o EXCEPT !.status = "confirmed"] ELSE o :
                   o \in pf}
           ELSE pf
  /\ UNCHANGED <<dec, cacheFile, up, ucalls, uinv, events>>

NextProvider ==
  \/ OrderReceive
  \/ OrderVerify
  \/ OrderParse
  \/ OrderLineItem
  \/ OrderNoValidItems
  \/ ProviderCreateDraft
  \/ ProviderConfirm
  \/ Redeliver

SpecProvider == Init /\ [][NextProvider]_vars

\* The provider holds a confirmed order under the external id.
ConfirmedUnder(ext) == \E o \in pf : o.external_id = ext /\ o.status = "confirmed"

\* C36 as stated: after any deliveries of the same order event to a provider
\* that rejects a second order under an external id it holds, a delivery
\* answers ok: true only when the provider holds a confirmed order under
\* that external id; a redelivery after a draft whose confirmation failed
\* included.
C36_OkOnlyWhenConfirmed ==
  (opc = "done" /\ oresp.status = 200 /\ oresp.ok = TRUE /\ items # <<>>)
     => ConfirmedUnder(draftOrder(order, items).external_id)

\* The first delivery of an order event, whose draft no earlier delivery has
\* created, answers ok: true only after the confirmation succeeded.
C36_FirstDeliveryOkOnlyWhenConfirmed ==
  (opc = "done" /\ oresp.status = 200 /\ oresp.ok = TRUE /\ items # <<>> /\ deliveries = 1)
     => ConfirmedUnder(draftOrder(order, items).external_id)


(***************************************************************************)
(* Deliveries of one shipment event that may overlap                       *)
(***************************************************************************)
\* One package_shipped event with a single shipment, for order 4021.
ShippedRequest ==
  [method |-> "POST",
   sig |-> <<Token("", FALSE, createHmac("sha256", "hex", "pfs", SmallEvent))>>,
   raw |-> SmallEvent]

\* The provider delivers the event to invocation p, while the other
\* invocation may still be at work: a first delivery, a concurrent one, or a
\* redelivery.
ShipDeliverShipped(p) ==
  /\ sh[p].pc \in {"idle", "done"}
  /\ events < MaxEvents
  /\ events' = events + 1
  /\ ShipStart(p, ShippedRequest)
  /\ UNCHANGED <<env, ovars, shop, scalls, dec, cacheFile, up, ucalls, uinv, pf>>

ShipStep(p) ==
  \/ ShipDeliverShipped(p)
  \/ ShipVerify(p)
  \/ ShipParse(p)
  \/ ShipResolve(p)
  \/ ShipFetchOrder(p)
  \/ ShipAlreadyFulfilled(p)
  \/ ShipCreateFulfillment(p)
  \/ ShipMarkFulfilled(p)

NextConcurrent == \E p \in Procs : ShipStep(p)

SpecConcurrent == InitSequence /\ [][NextConcurrent]_vars

\* The fulfillment records of order i that cover line item id.
RecordsCovering(i, id) ==
  {k \in 1..Len(shop[i].fulfillments) :
     \E j \in 1..Len(shop[i].fulfillments[k].line_items) :
        shop[i].fulfillments[k].line_items[j] = id}

\* C37 as stated: however the deliveries of one single-shipment
\* package_shipped event interleave, redeliveries and two concurrent
\* deliveries included, at most one fulfillment record covers a line item.
C37_AtMostOneRecordPerLineItem ==
  \A i \in ShopIds : \A n \in 1..Len(shop[i].line_items) :
     Cardinality(RecordsCovering(i, shop[i].line_items[n].id)) <= 1


(***************************************************************************)
(* A fulfillment the order source refuses                                  *)
(***************************************************************************)
\* The creation requests of invocation p that the order source refused.
RefusedCreations(p) ==
  {i \in 1..Len(ShopCallSeq(p, "fulfillments.create")) :
     ShopCallSeq(p, "fulfillments.create")[i].outcome # "ok"}

\* The writes of the status fulfilled that invocation p has issued.
FulfilledWrites(p) ==
  {i \in ShopCallsOf(p, "orders.mark") : scalls[i].target.status = "fulfilled"}

\* C38: the status fulfilled is written only after every fulfillment
\* creation of the event has succeeded.  When a creation fails it is the
\* last request of the invocation: no later shipment is processed, the
\* status is not written, the answer is 200 with ok: false (reason
\* fulfillment_failed), and the records created before it stay in place.
C38_FailureStopsBeforeFulfilled ==
  \A p \in Procs :
     LET created == ShopCallSeq(p, "fulfillments.create")
         id == sh[p].orderId
     IN  /\ FulfilledWrites(p) # {} =>
               /\ RefusedCreations(p) = {}
               /\ Len(created) \in {0, Len(sh[p].event.shipments)}
               /\ \A w \in FulfilledWrites(p) :
                     \A c \in ShopCallsOf(p, "fulfillments.create") : c < w
         /\ RefusedCreations(p) # {} =>
               /\ RefusedCreations(p) = {Len(created)}
               /\ scalls[Len(scalls)] = created[Len(created)]
               /\ ShopCallsOf(p, "orders.mark") = {}
               /\ sh[p].pc = "done"
               /\ sh[p].resp = [status |-> 200, kind |-> "fulfillment_failed", ok |-> FALSE,
                                fulfillments |-> <<>>]
               /\ shop[id].status = InitialShop[id].status
               /\ shop[id].fulfillments =
                     [k \in 1..(Len(created) - 1) |->
                        [line_items |-> created[k].target.line_items,
                         tracking |-> created[k].target.tracking]]

\* Of an event of two shipments the second was refused: one record stays with
\* order 4021, whose status was not written, and the answer is ok: false.
C38_Witness ==
  /\ sh[1].pc = "done"
  /\ Len(sh[1].event.shipments) = 2
  /\ RefusedCreations(1) = {2}
  /\ Len(shop[4021].fulfillments) = 1
  /\ shop[4021].status = "unfulfilled"
  /\ sh[1].resp.ok = FALSE


(***************************************************************************)
(* An event without an external id                                         *)
(***************************************************************************)
\* C39 as stated: for a verified shipment event that carries no external-id
\* token the handler issues no call to the order source, neither a lookup by
\* name nor a fetch nor a write, and acknowledges the event with 200 as
\* ignored.
C39_NoTokenNoCalls ==
  \A p \in Procs :
     (EventAccepted(p) /\ sh[p].event.ext = <<>>) =>
        /\ \A i \in 1..Len(scalls) : scalls[i].p # p
        /\ sh[p].pc = "done" =>
              /\ sh[p].resp.status = 200
              /\ sh[p].resp.ok
              /\ sh[p].resp.kind \in {"ignored", "no_external_id"}

\* An event without a token, once its lookup has found no order, is answered
\* 200 as ignored, and nothing but lookups was asked of the order source.
C39_NoOrderFoundIsIgnored ==
  \A p \in Procs :
     (EventAccepted(p) /\ sh[p].event.ext = <<>> /\ sh[p].pc = "done"
      /\ LookupsAnswered(p) /\ sh[p].orderId = 0) =>
        /\ sh[p].resp.status = 200
        /\ sh[p].resp.ok
        /\ sh[p].resp.kind \in {"ignored", "no_external_id"}
        /\ \A i \in 1..Len(scalls) : scalls[i].p = p => scalls[i].op = "orders.byName"

====
